---- MODULE Spec2Model ----
(***************************************************************************)
(* A model of the execution core of aiflow (urban-guide):                  *)
(*   - StepExecutor.executeStep and its retry policy                       *)
(*       (src/unnamed/part_006, the engine's step-executor.ts),            *)
(*   - StateManager, the status-partitioned session store, one step per    *)
(*       filesystem call (src/src/state/state-manager.ts),                 *)
(*   - WorkflowEngine.execute / pause / resume / getStatus                 *)
(*       (src/unnamed/part_007, the engine's workflow-engine.ts).          *)
(***************************************************************************)
EXTENDS Integers, Sequences, FiniteSets, TLC

(***************************************************************************)
(* Bounds of the model.                                                    *)
(***************************************************************************)
\* largest retryPolicy.maxAttempts drawn for a step
MaxAttemptsBound == 2
\* filesystem calls that may fail in one behaviour
MaxFaults == 1
\* processes that may die inside a State Manager call in one behaviour
MaxCrashes == 1
\* longest stepExecutions list the State Manager's caller builds
MaxExecs == 2
\* State Manager calls the caller makes in one behaviour
MaxCalls == 4
\* most top-level steps of a workflow
MaxSteps == 2
\* pause / resume / getStatus / listSessions calls in one behaviour
MaxControlOps == 2

MaxTime == 2

(***************************************************************************)
(* Errors.  An error is modelled by the set of classification keywords     *)
(* that occur in its lower-cased message; classifyError only ever looks    *)
(* at which of these substrings the message contains.                      *)
(***************************************************************************)
ErrorMessages ==
    { {}, {"timeout"}, {"validation"}, {"network"}, {"timeout", "validation"} }

\* a mutation of classifyError: the network test comes before the timeout test
ClassifyErrorNetworkFirst(msg) ==
    IF "network" \in msg \/ "connection" \in msg THEN "network_error"
    ELSE IF "timeout" \in msg THEN "timeout"
    ELSE IF "rate limit" \in msg THEN "rate_limit"
    ELSE IF "server error" \in msg \/ "500" \in msg THEN "server_error"
    ELSE IF "auth" \in msg THEN "authentication_error"
    ELSE IF "validation" \in msg THEN "validation_error"
    ELSE IF "unavailable" \in msg \/ "busy" \in msg THEN "resource_unavailable"
    ELSE "temporary_failure"

\* part_006:525-539  classifyError: first matching pattern in a fixed order
ClassifyError(msg) ==
    IF "timeout" \in msg THEN "timeout"
    ELSE IF "network" \in msg \/ "connection" \in msg THEN "network_error"
    ELSE IF "rate limit" \in msg THEN "rate_limit"
    ELSE IF "server error" \in msg \/ "500" \in msg THEN "server_error"
    ELSE IF "auth" \in msg THEN "authentication_error"
    ELSE IF "validation" \in msg THEN "validation_error"
    ELSE IF "unavailable" \in msg \/ "busy" \in msg THEN "resource_unavailable"
    ELSE "temporary_failure"

(***************************************************************************)
(* classifyError on thrown values.  A message is a sequence of characters; *)
(* the keyword sets used above are the keywords found in its lower case.   *)
(***************************************************************************)
Keywords ==
    {"timeout", "network", "connection", "rate limit", "server error", "500",
     "auth", "validation", "unavailable", "busy"}

\* the characters of the keywords classifyError searches for
KeywordChars ==
    [k \in Keywords |->
        CASE k = "timeout" -> <<"t", "i", "m", "e", "o", "u", "t">>
          [] k = "network" -> <<"n", "e", "t", "w", "o", "r", "k">>
          [] k = "connection" -> <<"c", "o", "n", "n", "e", "c", "t", "i", "o", "n">>
          [] k = "rate limit" -> <<"r", "a", "t", "e", " ", "l", "i", "m", "i", "t">>
          [] k = "server error" -> <<"s", "e", "r", "v", "e", "r", " ", "e", "r", "r", "o", "r">>
          [] k = "500" -> <<"5", "0", "0">>
          [] k = "auth" -> <<"a", "u", "t", "h">>
          [] k = "validation" -> <<"v", "a", "l", "i", "d", "a", "t", "i", "o", "n">>
          [] k = "unavailable" -> <<"u", "n", "a", "v", "a", "i", "l", "a", "b", "l", "e">>
          [] k = "busy" -> <<"b", "u", "s", "y">>]

\* pieces of error messages, in the cases they occur in
Fragments ==
    { <<"T", "i", "m", "e", "o", "u", "t">>,
      <<"C", "O", "N", "N", "E", "C", "T", "I", "O", "N">>,
      <<"n", "e", "t", "w", "o", "r", "k">>,
      <<"R", "a", "t", "e", " ", "L", "i", "m", "i", "t">>,
      <<"r", "a", "t", "e">>,
      <<"s", "e", "r", "v", "e", "r", " ", "e", "r", "r", "o", "r">>,
      <<"5", "0", "0">>,
      <<"A", "u", "t", "h">>,
      <<"v", "a", "l", "i", "d", "a", "t", "i", "o", "n">>,
      <<"U", "N", "A", "V", "A", "I", "L", "A", "B", "L", "E">>,
      <<"b", "u", "s", "y">>,
      <<"t", "i", "m", "e">>,
      <<"o", "u", "t">>,
      <<" ">>,
      <<"f", "a", "i", "l", "e", "d">> }

MaxFragments == 2

\* the messages: up to MaxFragments pieces, concatenated
RECURSIVE Concatenations(_)
Concatenations(n) ==
    IF n = 0 THEN {<<>>}
    ELSE Concatenations(n - 1)
            \cup {a \o b : a \in Concatenations(n - 1), b \in Fragments}

Messages == Concatenations(MaxFragments)

\* the values a catch block can hand to classifyError: an Error with a message,
\* a thrown string, or null / undefined
ThrownValues ==
    [kind : {"Error", "string"}, text : Messages]
        \cup {[kind |-> "null", text |-> <<>>]}

\* String.prototype.toLowerCase, one character
LowerOf(c) ==
    CASE c = "A" -> "a"
      [] c = "B" -> "b"
      [] c = "C" -> "c"
      [] c = "E" -> "e"
      [] c = "I" -> "i"
      [] c = "L" -> "l"
      [] c = "N" -> "n"
      [] c = "O" -> "o"
      [] c = "R" -> "r"
      [] c = "T" -> "t"
      [] c = "U" -> "u"
      [] c = "V" -> "v"
      [] OTHER -> c

\* part_006:528  message.toLowerCase()
ToLowerCase(text) == [i \in 1..Len(text) |-> LowerOf(text[i])]

\* String.prototype.includes
Includes(text, part) ==
    \E i \in 1..(Len(text) - Len(part) + 1) :
        SubSeq(text, i, i + Len(part) - 1) = part

\* the keywords that message.includes(...) finds
KeywordsIn(text) == {k \in Keywords : Includes(text, KeywordChars[k])}

\* part_006:525-528  classifyError(error): temporary_failure for a falsy value,
\* else the pattern of error.message / String(error) in lower case
ClassifyThrown(error) ==
    IF error.kind = "null" \/ (error.kind = "string" /\ error.text = <<>>)
    THEN "temporary_failure"
    ELSE ClassifyError(KeywordsIn(ToLowerCase(error.text)))

(***************************************************************************)
(* Retry policies.  has = FALSE is a step without retryPolicy;             *)
(* hasRetryOn = FALSE is a policy without the retryOn field;               *)
(* hasBackoff = FALSE is a policy without the backoffMs field.             *)
(***************************************************************************)
NoPolicy ==
    [has |-> FALSE, maxAttempts |-> 0, hasBackoff |-> FALSE, backoffMs |-> 0,
     hasRetryOn |-> FALSE, retryOn |-> {}]

RetryOnSets == { {}, {"timeout"}, {"validation_error", "network_error"} }

Policies ==
    {NoPolicy} \cup
    [has : {TRUE}, maxAttempts : 1..MaxAttemptsBound,
     hasBackoff : {TRUE}, backoffMs : {0, 100},
     hasRetryOn : {FALSE}, retryOn : {{}}] \cup
    [has : {TRUE}, maxAttempts : 1..MaxAttemptsBound,
     hasBackoff : {FALSE}, backoffMs : {0},
     hasRetryOn : {TRUE}, retryOn : RetryOnSets]

\* a mutation of shouldRetry: the attempt ceiling is off by one
ShouldRetryOffByOne(policy, msg, count) ==
    /\ policy.has
    /\ count + 1 < policy.maxAttempts
    /\ (policy.hasRetryOn => ClassifyError(msg) \in policy.retryOn)

\* a mutation of shouldRetry: the retryOn restriction is ignored
ShouldRetryIgnoresRetryOn(policy, msg, count) ==
    /\ policy.has
    /\ count < policy.maxAttempts

\* part_006:504-520  shouldRetry(step, error, retryCount)
ShouldRetry(policy, msg, count) ==
    IF ~policy.has THEN FALSE
    ELSE IF count >= policy.maxAttempts THEN FALSE
    ELSE IF policy.hasRetryOn THEN ClassifyError(msg) \in policy.retryOn
    ELSE TRUE

RECURSIVE Pow2(_)
Pow2(k) == IF k = 0 THEN 1 ELSE 2 * Pow2(k - 1)

\* part_006:544-549  calculateRetryDelay: backoffMs || 1000, times 2^retryCount
CalculateRetryDelay(policy, count) ==
    IF ~policy.has THEN 1000
    ELSE LET baseDelay == IF policy.hasBackoff /\ policy.backoffMs # 0
                          THEN policy.backoffMs ELSE 1000
         IN  baseDelay * Pow2(count)

(***************************************************************************)
(* State of one executeStep call.                                          *)
(***************************************************************************)
VARIABLES
    xpolicy,      \* step.retryPolicy of the step being executed
    xpc,          \* "idle" | "attempt" | "sleep" | "returned" | "thrown"
    retryCount,   \* the retryCount argument of the current (recursive) call
    attempts,     \* number of executeStepByType calls made so far
    sleeps,       \* the delays passed to sleep(), in order
    lastFail,     \* the failed attempt being handled: [k, msg]
    thrown,       \* the value last passed to classifyError
    pattern,      \* what classifyError returned for it
    call,         \* the function of the executor or the template engine
                  \* that was called on its own, with its arguments
    ret,          \* what that call returned or threw
    compiledCache \* TemplateEngine.compiledCache: template -> AST

\* the variables of the calls made on one function alone
pvars == <<call, ret, compiledCache>>

xvars == <<xpolicy, xpc, retryCount, attempts, sleeps, lastFail, thrown, pattern, pvars>>

NoCall == [fn |-> "none", n |-> 0]

NoReturn == [kind |-> "none"]

NoFail == [k |-> -1, msg |-> {}]

\* classifyError has not been called
NoError == [kind |-> "none", text |-> <<>>]

\* no executeStep call is in progress
ExecutorIdle ==
    /\ xpolicy = NoPolicy
    /\ xpc = "idle"
    /\ retryCount = 0
    /\ attempts = 0
    /\ sleeps = <<>>
    /\ lastFail = NoFail
    /\ thrown = NoError
    /\ pattern = "none"
    /\ call = NoCall
    /\ ret = NoReturn
    /\ compiledCache = <<>>

\* part_006:64-70  executeStep(step, context, sessionId, retryCount = 0)
ExecuteStepEnter(policy) ==
    /\ xpolicy' = policy
    /\ xpc' = "attempt"
    /\ retryCount' = 0
    /\ attempts' = 0
    /\ sleeps' = <<>>
    /\ lastFail' = NoFail
    /\ UNCHANGED <<thrown, pattern, pvars>>

\* part_006:77-78  executeStepByType returns: the step result is returned
AttemptSucceeds ==
    /\ xpc = "attempt"
    /\ attempts' = attempts + 1
    /\ xpc' = "returned"
    /\ UNCHANGED <<xpolicy, retryCount, sleeps, lastFail, thrown, pattern, pvars>>

\* part_006:79-90  executeStepByType throws: retry after a sleep, or rethrow
AttemptFails(msg) ==
    /\ xpc = "attempt"
    /\ attempts' = attempts + 1
    /\ lastFail' = [k |-> retryCount, msg |-> msg]
    /\ IF ShouldRetry(xpolicy, msg, retryCount)
       THEN /\ sleeps' = Append(sleeps, CalculateRetryDelay(xpolicy, retryCount))
            /\ xpc' = "sleep"
       ELSE /\ sleeps' = sleeps
            /\ xpc' = "thrown"
    /\ UNCHANGED <<xpolicy, retryCount, thrown, pattern, pvars>>

\* part_006:83-85  the sleep resolves: executeStep(..., retryCount + 1)
SleepDone ==
    /\ xpc = "sleep"
    /\ retryCount' = retryCount + 1
    /\ xpc' = "attempt"
    /\ UNCHANGED <<xpolicy, attempts, sleeps, lastFail, thrown, pattern, pvars>>

(***************************************************************************)
(* The session store.  Four status partitions, probed in the key order of  *)
(* StateManager.statusDirs; one final file <id>.json and one temp file     *)
(* <id>.json.tmp per session and partition.                                *)
(***************************************************************************)
\* state-manager.ts:63-68  statusDirs, in Object.keys order
Partitions == <<"running", "paused", "completed", "failed">>

Statuses == {"running", "paused", "completed", "failed"}

SessionIds == {"s1"}

EmptyMap == [k \in {} |-> 0]

\* {...a, ...b} and Object.assign(a, b): b's keys win
Merge(a, b) ==
    [k \in DOMAIN a \cup DOMAIN b |-> IF k \in DOMAIN b THEN b[k] ELSE a[k]]

\* a path that holds no file
NoFile ==
    [kind |-> "none", status |-> "none", stepExecutions |-> <<>>,
     currentStepIndex |-> 0, context |-> EmptyMap, createdAt |-> 0, updatedAt |-> 0]

\* what an interrupted writeFile leaves behind: not parseable JSON
Partial ==
    [kind |-> "partial", status |-> "none", stepExecutions |-> <<>>,
     currentStepIndex |-> 0, context |-> EmptyMap, createdAt |-> 0, updatedAt |-> 0]

NoDisk == [id \in SessionIds |-> [p \in Statuses |-> NoFile]]

VARIABLES
    final,        \* final[id][p]: content of <p>/<id>.json
    temp,         \* temp[id][p]:  content of <p>/<id>.json.tmp
    faults,       \* filesystem calls that have failed so far
    crashes,      \* processes that died inside a State Manager call so far
    usedIds,      \* session ids uuidv4 has handed out
    cfr,          \* the State Manager call of the caller (or of pause/resume)
    snap,         \* final as it was when the caller's call began
    calls,        \* State Manager calls the caller has made
    now,          \* the clock new Date() reads
    cln           \* the caller's cleanupSessions call: position, options, results

svars == <<final, temp, faults, crashes, usedIds, cfr, snap, calls, now, cln>>

\* no cleanupSessions call is in progress
NoCleanup ==
    [pc |-> "idle", dryRun |-> FALSE, cutoff |-> 0, statuses |-> <<>>, todo |-> <<>>,
     listed |-> {}, queue |-> <<>>, deleted |-> <<>>, errors |-> <<>>]

\* state-manager.ts:97-117  the record createSession builds: const now = new Date()
NewSession ==
    [kind |-> "json", status |-> "running", stepExecutions |-> <<>>,
     currentStepIndex |-> 0, context |-> ("variables" :> EmptyMap),
     createdAt |-> now, updatedAt |-> now]

(***************************************************************************)
(* State of the Workflow Engine: one execute run, and the caller's pause,  *)
(* resume, getStatus and listSessions calls on the session it created.     *)
(***************************************************************************)
VARIABLES
    workflow,     \* workflow.steps: the retryPolicy of each top-level step
    epc,          \* the call execute is awaiting, or how it ended
    efr,          \* the State Manager call execute is inside, or whose error left it
    mem,          \* currentState: the record execute loaded and mutates
    stepIdx,      \* i of executeSteps' for loop
    thrownStep,   \* number of the step whose executeStep call thrownStep, 0 if none
    events,       \* the events emitted so far
    cop,          \* the engine call of the caller in progress
    cpc,          \* its position
    cstate,       \* sessionState: the record pause / resume loaded first
    cresult,      \* how the caller's last engine call ended
    observed,     \* status in the WorkflowState getStatus / listSessions last returned
    overlap       \* whether the caller calls the engine while another call is awaiting

evars == <<workflow, epc, efr, mem, stepIdx, thrownStep, events, cop, cpc, cstate,
           cresult, observed, overlap>>

vars == <<xvars, svars, evars>>

\* a State Manager call in progress: one pc per awaited filesystem call
IdleFrame ==
    [op |-> "idle", pc |-> "idle", id |-> "s1", probe |-> 1, path |-> "none",
     loaded |-> NoFile, state |-> NoFile, newStatus |-> "none",
     arg |-> EmptyMap, tag |-> "none", inSave |-> FALSE, tmpCleaned |-> FALSE,
     at |-> 0, stamp |-> 0]

\* state-manager.ts:388-400  findSessionFile with every access succeeding:
\* the first partition, in probe order, that holds a file
RECURSIVE FindFrom(_, _, _)
FindFrom(fin, id, i) ==
    IF i > Len(Partitions) THEN "none"
    ELSE IF fin[id][Partitions[i]].kind # "none" THEN Partitions[i]
    ELSE FindFrom(fin, id, i + 1)

FindSessionFile(fin, id) == FindFrom(fin, id, 1)

\* state-manager.ts:163-194  loadSession(id) with no status hint and no
\* failing call: the parsed content of the file found, NoFile when the
\* call throws
LoadSession(fin, id) ==
    LET p == FindSessionFile(fin, id)
    IN  IF p = "none" THEN NoFile
        ELSE IF fin[id][p].kind = "json" THEN fin[id][p] ELSE NoFile

\* a mutation of addStepExecution: the record is appended, the index is kept
UpdatedStateKeepsIndex(f, loaded) ==
    CASE f.op = "updateSessionStatus" -> [loaded EXCEPT !.status = f.newStatus]
      [] f.op = "updateContext" ->
            [loaded EXCEPT !.context = Merge(loaded.context, f.arg)]
      [] f.op = "addStepExecution" ->
            [loaded EXCEPT !.stepExecutions = Append(loaded.stepExecutions, f.arg)]
      [] OTHER -> loaded

\* a mutation of updateContext: it advances currentStepIndex as well
UpdatedStateContextAdvances(f, loaded) ==
    CASE f.op = "updateSessionStatus" -> [loaded EXCEPT !.status = f.newStatus]
      [] f.op = "updateContext" ->
            [loaded EXCEPT !.context = Merge(loaded.context, f.arg),
                           !.currentStepIndex = loaded.currentStepIndex + 1]
      [] f.op = "addStepExecution" ->
            [loaded EXCEPT !.stepExecutions = Append(loaded.stepExecutions, f.arg),
                           !.currentStepIndex = loaded.currentStepIndex + 1]
      [] OTHER -> loaded

\* a mutation of addStepExecution: only a success record advances the index
UpdatedStateSuccessAdvances(f, loaded) ==
    CASE f.op = "updateSessionStatus" -> [loaded EXCEPT !.status = f.newStatus]
      [] f.op = "updateContext" ->
            [loaded EXCEPT !.context = Merge(loaded.context, f.arg)]
      [] f.op = "addStepExecution" ->
            [loaded EXCEPT !.stepExecutions = Append(loaded.stepExecutions, f.arg),
                           !.currentStepIndex =
                               IF f.arg.status = "success"
                               THEN loaded.currentStepIndex + 1
                               ELSE loaded.currentStepIndex]
      [] OTHER -> loaded

\* the record a loading operation passes to saveSession
\* state-manager.ts:205-209, 234-238, 249-254
UpdatedState(f, loaded) ==
    CASE f.op = "updateSessionStatus" -> [loaded EXCEPT !.status = f.newStatus]
      [] f.op = "updateContext" ->
            [loaded EXCEPT !.context = Merge(loaded.context, f.arg)]
      [] f.op = "addStepExecution" ->
            [loaded EXCEPT !.stepExecutions = Append(loaded.stepExecutions, f.arg),
                           !.currentStepIndex = loaded.currentStepIndex + 1]
      [] OTHER -> loaded

Throw(f, tag) == [f EXCEPT !.pc = "error", !.tag = tag]

\* a mutation of updateSessionStatus: the file of the old partition is
\* unlinked whether or not the status changed
UnlinksOldAlways(f) == f.op = "updateSessionStatus"

\* state-manager.ts:215  if (currentState.status !== newStatus)
UnlinksOld(f) == f.op = "updateSessionStatus" /\ f.loaded.status # f.newStatus

\* a mutation of saveSession: updatedAt is written as the caller supplied it
StateToSaveAsSupplied(f) == f.state

\* state-manager.ts:134-137  stateToSave = {...state, updatedAt: new Date()}
StateToSave(f) == [f.state EXCEPT !.updatedAt = f.stamp]

\* a mutation of saveSession: the content is written straight to the final
\* path, so a failing write leaves its partial content there
WriteFileDirect(f, fk) ==
    LET p == f.state.status
    IN  [final |-> [final EXCEPT ![f.id][p] = IF fk = "ok" THEN StateToSave(f)
                                               ELSE Partial],
         temp  |-> IF fk = "ok" THEN [temp EXCEPT ![f.id][p] = StateToSave(f)]
                   ELSE temp]

\* state-manager.ts:140  fs.writeFile(tempFile, ...): the content on success,
\* nothing or a partial file on failure
WriteFile(f, fk) ==
    LET p == f.state.status
    IN  [final |-> final,
         temp  |-> CASE fk = "ok"      -> [temp EXCEPT ![f.id][p] = StateToSave(f)]
                     [] fk = "partial" -> [temp EXCEPT ![f.id][p] = Partial]
                     [] OTHER          -> temp]

\* One awaited filesystem call of the State Manager call f.  fk is what the
\* filesystem does: "ok", "fail" (the call rejects) or, for writeFile,
\* "partial" (it rejects leaving a partial file).
FsStep(f, fk) ==
    CASE f.pc = "access" ->
           \* state-manager.ts:388-400 findSessionFile, one probe
           LET p == Partitions[f.probe]
           IN  IF fk = "ok" /\ final[f.id][p].kind # "none"
               THEN [f |-> [f EXCEPT !.path = p,
                                     !.pc = IF f.op = "deleteSession"
                                            THEN "unlink" ELSE "readFile"],
                     final |-> final, temp |-> temp]
               ELSE IF f.probe < Len(Partitions)
               THEN [f |-> [f EXCEPT !.probe = f.probe + 1],
                     final |-> final, temp |-> temp]
               ELSE [f |-> Throw(f, IF f.op = "deleteSession" THEN "write" ELSE "read"),
                     final |-> final, temp |-> temp]
      [] f.pc = "readFile" ->
           \* state-manager.ts:177-193 readFile + JSON.parse
           LET c == final[f.id][f.path]
           IN  IF fk # "ok" \/ c.kind # "json"
               THEN [f |-> Throw(f, "read"), final |-> final, temp |-> temp]
               ELSE [f |-> [f EXCEPT !.loaded = c,
                                     !.state = [UpdatedState(f, c) EXCEPT
                                                   !.updatedAt = now],
                                     !.pc = IF f.op = "loadSession"
                                            THEN "done" ELSE "initialize"],
                     final |-> final, temp |-> temp]
      [] f.pc = "initialize" ->
           \* state-manager.ts:127 (74-90) initialize: mkdir of the five directories
           IF fk # "ok"
           THEN [f |-> Throw(f, "write"), final |-> final, temp |-> temp]
           ELSE [f |-> [f EXCEPT !.pc = "writeFile", !.inSave = TRUE, !.stamp = now],
                 final |-> final, temp |-> temp]
      [] f.pc = "writeFile" ->
           LET w == WriteFile(f, fk)
           IN  [f |-> [f EXCEPT !.pc = IF fk = "ok" THEN "rename" ELSE "unlinkTemp"],
                final |-> w.final, temp |-> w.temp]
      [] f.pc = "rename" ->
           \* state-manager.ts:143 fs.rename(tempFile, sessionFile)
           LET p == f.state.status
           IN  IF fk = "ok" /\ temp[f.id][p].kind # "none"
               THEN [f |-> [f EXCEPT !.pc = IF UnlinksOld(f) THEN "unlinkOld" ELSE "done",
                                     !.inSave = FALSE],
                     final |-> [final EXCEPT ![f.id][p] = temp[f.id][p]],
                     temp |-> [temp EXCEPT ![f.id][p] = NoFile]]
               ELSE [f |-> [f EXCEPT !.pc = "unlinkTemp"],
                     final |-> final, temp |-> temp]
      [] f.pc = "unlinkTemp" ->
           \* state-manager.ts:144-157 best-effort unlink(tempFile), then throw
           LET p == f.state.status
           IN  [f |-> [Throw(f, "write") EXCEPT !.tmpCleaned = (fk = "ok")],
                final |-> final,
                temp |-> IF fk = "ok" THEN [temp EXCEPT ![f.id][p] = NoFile] ELSE temp]
      [] f.pc = "unlinkOld" ->
           \* state-manager.ts:215-224 unlink(currentFile), failure only logged
           [f |-> [f EXCEPT !.pc = "done"],
            final |-> IF fk = "ok"
                      THEN [final EXCEPT ![f.id][f.loaded.status] = NoFile]
                      ELSE final,
            temp |-> temp]
      [] f.pc = "unlink" ->
           \* state-manager.ts:313-327 deleteSession's unlink(sessionFile)
           IF fk # "ok"
           THEN [f |-> Throw(f, "write"), final |-> final, temp |-> temp]
           ELSE IF final[f.id][f.path].kind = "none"
           THEN [f |-> Throw(f, "read"), final |-> final, temp |-> temp]
           ELSE [f |-> [f EXCEPT !.pc = "done"],
                 final |-> [final EXCEPT ![f.id][f.path] = NoFile],
                 temp |-> temp]
      [] OTHER -> [f |-> f, final |-> final, temp |-> temp]

Running(f) == f.op # "idle" /\ f.pc \notin {"done", "error"}

\* what the filesystem may do at the call f is waiting for
FsOutcomes(f) ==
    {"ok"} \cup (IF faults < MaxFaults
                 THEN {"fail"} \cup (IF f.pc = "writeFile" THEN {"partial"} ELSE {})
                 ELSE {})

\* the frames of the State Manager's operations as they are entered
\* state-manager.ts:95-121 createSession -> saveSession(workflowState)
CreateSessionFrame(id) ==
    [IdleFrame EXCEPT !.op = "createSession", !.pc = "initialize", !.id = id, !.at = now,
                      !.state = NewSession]

\* state-manager.ts:126 saveSession(state)
SaveSessionFrame(id, state) ==
    [IdleFrame EXCEPT !.op = "saveSession", !.pc = "initialize", !.id = id, !.at = now,
                      !.state = state]

\* state-manager.ts:163 loadSession(sessionId)
LoadSessionFrame(id) ==
    [IdleFrame EXCEPT !.op = "loadSession", !.pc = "access", !.id = id, !.at = now]

\* state-manager.ts:199 updateSessionStatus(sessionId, newStatus)
UpdateSessionStatusFrame(id, st) ==
    [IdleFrame EXCEPT !.op = "updateSessionStatus", !.pc = "access", !.id = id, !.at = now,
                      !.newStatus = st]

\* state-manager.ts:230 updateContext(sessionId, contextUpdates)
UpdateContextFrame(id, upd) ==
    [IdleFrame EXCEPT !.op = "updateContext", !.pc = "access", !.id = id, !.at = now,
                      !.arg = upd]

\* state-manager.ts:246 addStepExecution(sessionId, execution)
AddStepExecutionFrame(id, ex) ==
    [IdleFrame EXCEPT !.op = "addStepExecution", !.pc = "access", !.id = id, !.at = now,
                      !.arg = ex]

\* state-manager.ts:313 deleteSession(sessionId)
DeleteSessionFrame(id) ==
    [IdleFrame EXCEPT !.op = "deleteSession", !.pc = "access", !.id = id, !.at = now]

\* the session id that execute's createSession obtains from uuidv4
EId == "s1"

NoResult == [op |-> "none", result |-> "none"]

\* a WorkflowEngine on which nothing has been called yet
EngineIdle ==
    /\ workflow = <<>>
    /\ epc = "notStarted"
    /\ efr = IdleFrame
    /\ mem = NoFile
    /\ stepIdx = 0
    /\ thrownStep = 0
    /\ events = <<>>
    /\ cop = "idle"
    /\ cpc = "idle"
    /\ cstate = NoFile
    /\ cresult = NoResult
    /\ observed = "none"
    /\ overlap = FALSE

(***************************************************************************)
(* The caller of the State Manager: one call at a time, any operation with *)
(* any argument, any filesystem call free to fail while the budget lasts,  *)
(* and the calling process free to die between two filesystem calls.       *)
(***************************************************************************)
SampleExecutions ==
    { [stepId |-> 1, status |-> "success", outputs |-> ("stdout" :> 1), error |-> <<>>],
      [stepId |-> 1, status |-> "failed", outputs |-> EmptyMap, error |-> <<{"timeout"}>>] }

SampleContextUpdates == { ("variables" :> ("x" :> 1)) }

Begin(frame) ==
    /\ cfr.op = "idle"
    /\ cln.pc \in {"idle", "returned"}
    /\ calls < MaxCalls
    /\ calls' = calls + 1
    /\ cfr' = frame
    /\ snap' = final
    /\ cln' = NoCleanup
    /\ UNCHANGED <<final, temp, faults, crashes, now>>
    /\ UNCHANGED <<xvars, evars>>

CallCreateSession ==
    \E id \in SessionIds \ usedIds :
        /\ Begin(CreateSessionFrame(id))
        /\ usedIds' = usedIds \cup {id}

\* the updatedAt values a caller supplies to saveSession: an old date, or one
\* that lies ahead of the clock
SuppliedTimes == {0, MaxTime + 1}

\* saveSession with a record the caller loaded, its status and its updatedAt set
\* as the caller likes
CallSaveSession ==
    \E id \in SessionIds, st \in Statuses, u \in SuppliedTimes :
        /\ LoadSession(final, id).kind = "json"
        /\ Begin(SaveSessionFrame(id, [LoadSession(final, id) EXCEPT
                                          !.status = st, !.updatedAt = u]))
        /\ UNCHANGED usedIds

CallLoadSession ==
    \E id \in SessionIds :
        Begin(LoadSessionFrame(id)) /\ UNCHANGED usedIds

CallUpdateSessionStatus ==
    \E id \in SessionIds, st \in Statuses :
        Begin(UpdateSessionStatusFrame(id, st)) /\ UNCHANGED usedIds

CallUpdateContext ==
    \E id \in SessionIds, upd \in SampleContextUpdates :
        Begin(UpdateContextFrame(id, upd)) /\ UNCHANGED usedIds

CallAddStepExecution ==
    \E id \in SessionIds, ex \in SampleExecutions :
        /\ Len(LoadSession(final, id).stepExecutions) < MaxExecs
        /\ Begin(AddStepExecutionFrame(id, ex))
        /\ UNCHANGED usedIds

CallDeleteSession ==
    \E id \in SessionIds :
        Begin(DeleteSessionFrame(id)) /\ UNCHANGED usedIds

\* the filesystem call the caller awaits completes
CallerFsStep ==
    /\ Running(cfr)
    /\ \E fk \in FsOutcomes(cfr) :
          LET r == FsStep(cfr, fk)
          IN  /\ cfr' = r.f
              /\ final' = r.final
              /\ temp' = r.temp
              /\ faults' = IF fk = "ok" THEN faults ELSE faults + 1
    /\ UNCHANGED <<crashes, usedIds, snap, calls, now, cln>>
    /\ UNCHANGED <<xvars, evars>>

\* the call has returned or thrown: the caller goes on
CallerReturn ==
    /\ cfr.pc \in {"done", "error"}
    /\ cln.pc # "delete"
    /\ cfr' = IdleFrame
    /\ snap' = NoDisk
    /\ UNCHANGED <<final, temp, faults, crashes, usedIds, calls, now, cln>>
    /\ UNCHANGED <<xvars, evars>>

\* the calling process dies between two filesystem calls; a new one takes over
CallerCrash ==
    /\ Running(cfr)
    /\ crashes < MaxCrashes
    /\ crashes' = crashes + 1
    /\ cfr' = IdleFrame
    /\ snap' = NoDisk
    /\ cln' = NoCleanup
    /\ UNCHANGED <<final, temp, faults, usedIds, calls, now>>
    /\ UNCHANGED <<xvars, evars>>

InitStore ==
    /\ final = NoDisk
    /\ temp = NoDisk
    /\ faults = 0
    /\ crashes = 0
    /\ usedIds = {}
    /\ cfr = IdleFrame
    /\ snap = NoDisk
    /\ calls = 0
    /\ now = 0
    /\ cln = NoCleanup

InitSM == InitStore /\ ExecutorIdle /\ EngineIdle

NextSM ==
    \/ CallCreateSession
    \/ CallSaveSession
    \/ CallLoadSession
    \/ CallUpdateSessionStatus
    \/ CallUpdateContext
    \/ CallAddStepExecution
    \/ CallDeleteSession
    \/ CallerFsStep
    \/ CallerReturn
    \/ CallerCrash

SpecSM == InitSM /\ [][NextSM]_vars

(***************************************************************************)
(* SpecSMClock: the same caller, with the clock advancing at any moment,   *)
(* between calls as well as between the filesystem calls of one call, and  *)
(* with cleanupSessions among its calls.                                   *)
(***************************************************************************)
Tick ==
    /\ now < MaxTime
    /\ now' = now + 1
    /\ UNCHANGED <<final, temp, faults, crashes, usedIds, cfr, snap, calls, cln>>
    /\ UNCHANGED <<xvars, evars>>

(***************************************************************************)
(* cleanupSessions, one action per await: the listSessions call of each    *)
(* requested status, and the deleteSession call of each session that is    *)
(* old enough, which runs through the filesystem steps of CallerFsStep.    *)
(***************************************************************************)
\* the maxAge options the caller passes, in clock ticks
MaxAges == {0, 1}

\* the statuses options the caller passes; the first is the default
CleanupStatusLists == { <<"completed", "failed">>, <<"running", "completed">> }

\* state-manager.ts:275-291  the sessions listSessions finds in one partition:
\* the files that parse
Listed(fin, p) == {id \in SessionIds : fin[id][p].kind = "json"}

\* state-manager.ts:282-290  the SessionInfo pushed for one file
SessionInfo(fin, id, p) == [sessionId |-> id, updatedAt |-> fin[id][p].updatedAt]

\* state-manager.ts:307  sort by updatedAt, most recent first
RECURSIVE SortByUpdatedAt(_, _, _)
SortByUpdatedAt(fin, p, ids) ==
    IF ids = {} THEN <<>>
    ELSE LET first == CHOOSE id \in ids :
                          \A o \in ids : fin[id][p].updatedAt >= fin[o][p].updatedAt
         IN  <<SessionInfo(fin, first, p)>> \o SortByUpdatedAt(fin, p, ids \ {first})

\* state-manager.ts:262-308  listSessions(status) with every call succeeding
ListSessions(fin, p) == SortByUpdatedAt(fin, p, Listed(fin, p))

\* a mutation of cleanupSessions: the dryRun option is ignored
DeletesAlways(c) == TRUE

\* state-manager.ts:353  if (!dryRun)
Deletes(c) == ~c.dryRun

\* state-manager.ts:348-374  the loops go on: the next session of the list,
\* the next status, or the return
Advance(c) ==
    IF c.queue # <<>> THEN [c EXCEPT !.pc = "process"]
    ELSE IF Len(c.todo) > 1 THEN [c EXCEPT !.todo = Tail(@), !.pc = "list"]
    ELSE [c EXCEPT !.todo = <<>>, !.pc = "returned"]

\* state-manager.ts:332-346  cleanupSessions(options) is entered
CallCleanupSessions ==
    \E dryRun \in BOOLEAN, maxAge \in MaxAges, statuses \in CleanupStatusLists :
        /\ cfr.op = "idle"
        /\ cln.pc \in {"idle", "returned"}
        /\ calls < MaxCalls
        /\ calls' = calls + 1
        /\ snap' = final
        /\ cln' = [NoCleanup EXCEPT !.pc = "list", !.dryRun = dryRun,
                                    !.cutoff = now - maxAge,
                                    !.statuses = statuses, !.todo = statuses]
        /\ UNCHANGED <<final, temp, faults, crashes, usedIds, cfr, now>>
        /\ UNCHANGED <<xvars, evars>>

\* state-manager.ts:350, 367-372  listSessions(status) returns the partition's
\* sessions, returns them without a file whose readFile failed, or throws
\* (initialize or readdir failed) and the status goes to errors
CleanupListSessions ==
    /\ cln.pc = "list"
    /\ LET status == Head(cln.todo)
       IN  \/ /\ cln' = Advance([cln EXCEPT !.queue = ListSessions(final, status),
                                             !.listed = @ \cup {status}])
              /\ UNCHANGED faults
           \/ /\ faults < MaxFaults
              /\ faults' = faults + 1
              /\ \/ cln' = Advance([cln EXCEPT !.errors =
                                       Append(@, [kind |-> "status", key |-> status])])
                 \/ \E lost \in Listed(final, status) :
                        cln' = Advance([cln EXCEPT !.queue =
                                   SortByUpdatedAt(final, status,
                                                   Listed(final, status) \ {lost})])
    /\ UNCHANGED <<final, temp, crashes, usedIds, cfr, snap, calls, now>>
    /\ UNCHANGED <<xvars, evars>>

\* state-manager.ts:351-365  the next session of the list: skipped when not
\* older than the cutoff, pushed to deleted in a dry run, else deleteSession
CleanupProcess ==
    /\ cln.pc = "process"
    /\ LET session == Head(cln.queue)
       IN  IF session.updatedAt < cln.cutoff
           THEN IF Deletes(cln)
                THEN /\ cfr' = DeleteSessionFrame(session.sessionId)
                     /\ cln' = [cln EXCEPT !.pc = "delete"]
                ELSE /\ cln' = Advance([cln EXCEPT !.queue = Tail(@),
                                           !.deleted = Append(@, session.sessionId)])
                     /\ UNCHANGED cfr
           ELSE /\ cln' = Advance([cln EXCEPT !.queue = Tail(@)])
                /\ UNCHANGED cfr
    /\ UNCHANGED <<final, temp, faults, crashes, usedIds, snap, calls, now>>
    /\ UNCHANGED <<xvars, evars>>

\* state-manager.ts:354-362  deleteSession has returned (deleted.push) or
\* thrown (errors.push)
CleanupDeleteReturned ==
    /\ cln.pc = "delete"
    /\ cfr.pc \in {"done", "error"}
    /\ LET session == Head(cln.queue)
       IN  cln' = Advance(
                 IF cfr.pc = "done"
                 THEN [cln EXCEPT !.queue = Tail(@),
                                  !.deleted = Append(@, session.sessionId)]
                 ELSE [cln EXCEPT !.queue = Tail(@),
                                  !.errors = Append(@, [kind |-> "session",
                                                        key |-> session.sessionId])])
    /\ cfr' = IdleFrame
    /\ UNCHANGED <<final, temp, faults, crashes, usedIds, snap, calls, now>>
    /\ UNCHANGED <<xvars, evars>>

InitSMClock == InitStore /\ ExecutorIdle /\ EngineIdle

NextSMClock ==
    \/ CallCreateSession
    \/ CallSaveSession
    \/ CallLoadSession
    \/ CallUpdateSessionStatus
    \/ CallUpdateContext
    \/ CallAddStepExecution
    \/ CallDeleteSession
    \/ CallerFsStep
    \/ CallerReturn
    \/ CallerCrash
    \/ Tick
    \/ CallCleanupSessions
    \/ CleanupListSessions
    \/ CleanupProcess
    \/ CleanupDeleteReturned

SpecSMClock == InitSMClock /\ [][NextSMClock]_vars

(***************************************************************************)
(* WorkflowEngine.execute, one action per await and per continuation.      *)
(***************************************************************************)
EnginePolicies ==
    { NoPolicy,
      [has |-> TRUE, maxAttempts |-> 1, hasBackoff |-> TRUE, backoffMs |-> 100,
       hasRetryOn |-> TRUE, retryOn |-> {"timeout"}] }

\* the messages of the errors a step's executeStepByType call throws
StepErrors == { {"timeout"}, {"network"} }

Workflows == UNION { [1..n -> EnginePolicies] : n \in 0..MaxSteps }

Ev(type, step) == [type |-> type, step |-> step]

\* the outputs of the n-th step's StepResult (a script step's stdout, ...)
StepOutputs(n) == ("stdout" :> n)

\* part_007:170-177  the record of a step that returned
SuccessExecution(n, outputs) ==
    [stepId |-> n, status |-> "success", outputs |-> outputs, error |-> <<>>]

\* a mutation of the failed record: the error message is dropped
FailedExecutionNoError(n, msg) ==
    [stepId |-> n, status |-> "failed", outputs |-> EmptyMap, error |-> <<>>]

\* part_007:200-208  the record of a step that thrownStep
FailedExecution(n, msg) ==
    [stepId |-> n, status |-> "failed", outputs |-> EmptyMap, error |-> <<msg>>]

\* a mutation of executeSteps: the catch block does not rethrow
SwallowsStepFailure == FALSE

\* part_007:218  throw new StepExecutionError(...) at the end of the catch block
RethrowsStepFailure == TRUE

\* a mutation of pause: any session that is not already paused may be paused
PauseAllowedUnlessPaused(status) == status # "paused"

\* a mutation of pause: the status check is dropped
PauseAllowedAlways(status) == TRUE

\* part_007:141  if (sessionState.status !== 'running') throw
PauseAllowed(status) == status = "running"

\* a mutation of resume: any session that has not ended may be resumed
ResumeAllowedUnlessEnded(status) == status \in {"running", "paused"}

\* part_007:105  if (sessionState.status !== 'paused') throw
ResumeAllowed(status) == status = "paused"

Finished(f) == f.pc \in {"done", "error"}

Stopped == {"notStarted", "returned", "thrown", "crashed"}

\* an engine call proceeds when the caller overlaps calls or no other call is awaiting
ExecuteMayRun == overlap \/ cop = "idle"

ControlMayBegin == overlap \/ epc \in Stopped

FaultOutcomes == {"ok"} \cup (IF faults < MaxFaults THEN {"fail"} ELSE {})

\* state-manager.ts:83-89  the initialize call execute made has thrown
InitializeFailed ==
    [IdleFrame EXCEPT !.op = "initialize", !.pc = "error", !.tag = "write"]

\* the error that left execute: the state error of the State Manager call that
\* threw outside the try (part_007:57-60) or inside the catch (part_007:82), or
\* the workflow error execute builds at part_007:87
Raised ==
    IF epc # "thrown" THEN "none"
    ELSE IF efr.pc = "error" THEN "StateError"
    ELSE "WorkflowError"

\* part_007:156-159  the head of executeSteps' loop at index i, after events ev:
\* start step i, or leave the loop and mark the session completed (part_007:75)
LoopHead(i, ev) ==
    /\ stepIdx' = i
    /\ IF i < Len(workflow)
       THEN /\ events' = Append(ev, Ev("stepStarted", i + 1))
            /\ ExecuteStepEnter(workflow[i + 1])
            /\ efr' = IdleFrame
            /\ epc' = "executeStep"
       ELSE /\ events' = ev
            /\ efr' = UpdateSessionStatusFrame(EId, "completed")
            /\ epc' = "markCompleted"
            /\ UNCHANGED xvars

\* a mutation of execute's catch block: the status written is running
CatchKeepsRunning(ev) ==
    /\ events' = ev
    /\ efr' = UpdateSessionStatusFrame(EId, "running")
    /\ epc' = "markFailed"
    /\ UNCHANGED xvars

\* part_007:80-82  execute's catch block: mark the session failed
Catch(ev) ==
    /\ events' = ev
    /\ efr' = UpdateSessionStatusFrame(EId, "failed")
    /\ epc' = "markFailed"
    /\ UNCHANGED xvars

\* part_007:55  execute(workflow, inputs) is called
ExecuteCall ==
    /\ ExecuteMayRun
    /\ epc = "notStarted"
    /\ epc' = "initialize"
    /\ UNCHANGED <<workflow, efr, mem, stepIdx, thrownStep, events, cop, cpc, cstate,
                   cresult, observed, overlap>>
    /\ UNCHANGED <<xvars, svars>>

\* part_007:57-60  stateManager.initialize(), then createSession is entered
ExecuteInitialize ==
    /\ ExecuteMayRun
    /\ epc = "initialize"
    /\ \E fk \in FaultOutcomes :
          IF fk = "ok"
          THEN /\ epc' = "createSession"
               /\ efr' = CreateSessionFrame(EId)
               /\ usedIds' = usedIds \cup {EId}
               /\ faults' = faults
          ELSE /\ epc' = "thrown"
               /\ efr' = InitializeFailed
               /\ usedIds' = usedIds
               /\ faults' = faults + 1
    /\ UNCHANGED <<workflow, mem, stepIdx, thrownStep, events, cop, cpc, cstate,
                   cresult, observed, overlap>>
    /\ UNCHANGED <<final, temp, crashes, cfr, snap, calls, now, cln>>
    /\ UNCHANGED xvars

\* the filesystem call execute's State Manager call awaits completes
ExecuteFsStep ==
    /\ ExecuteMayRun
    /\ Running(efr)
    /\ \E fk \in FsOutcomes(efr) :
          LET r == FsStep(efr, fk)
          IN  /\ efr' = r.f
              /\ final' = r.final
              /\ temp' = r.temp
              /\ faults' = IF fk = "ok" THEN faults ELSE faults + 1
    /\ UNCHANGED <<workflow, epc, mem, stepIdx, thrownStep, events, cop, cpc, cstate,
                   cresult, observed, overlap>>
    /\ UNCHANGED <<crashes, usedIds, cfr, snap, calls, now, cln>>
    /\ UNCHANGED xvars

\* part_007:60-66  createSession returned: emit started, load the session
ExecuteCreated ==
    /\ ExecuteMayRun
    /\ epc = "createSession" /\ Finished(efr)
    /\ IF efr.pc = "done"
       THEN /\ events' = Append(events, Ev("started", 0))
            /\ efr' = LoadSessionFrame(EId)
            /\ epc' = "loadSession"
       ELSE /\ events' = events
            /\ efr' = efr
            /\ epc' = "thrown"
    /\ UNCHANGED <<workflow, mem, stepIdx, thrownStep, cop, cpc, cstate, cresult,
                   observed, overlap>>
    /\ UNCHANGED <<xvars, svars>>

\* part_007:66-72, 153-159  the initial state is loaded: executeSteps begins
ExecuteLoaded ==
    /\ ExecuteMayRun
    /\ epc = "loadSession" /\ Finished(efr)
    /\ IF efr.pc = "done"
       THEN /\ mem' = efr.loaded
            /\ LoopHead(efr.loaded.currentStepIndex, events)
       ELSE /\ mem' = mem
            /\ stepIdx' = stepIdx
            /\ Catch(events)
    /\ UNCHANGED <<workflow, thrownStep, cop, cpc, cstate, cresult, observed, overlap>>
    /\ UNCHANGED svars

\* part_007:163-185  executeStep returned: merge the outputs into
\* currentState.context.variables and call addStepExecution
ExecuteStepReturned ==
    /\ ExecuteMayRun
    /\ epc = "executeStep" /\ xpc = "returned"
    /\ LET n == stepIdx + 1
           out == StepOutputs(n)
       IN  /\ mem' = [mem EXCEPT !.context =
                        Merge(mem.context,
                              ("variables" :> Merge(mem.context["variables"], out)))]
           /\ efr' = AddStepExecutionFrame(EId, SuccessExecution(n, out))
    /\ epc' = "addStepExecution"
    /\ xpc' = "idle"
    /\ UNCHANGED <<xpolicy, retryCount, attempts, sleeps, lastFail, thrown, pattern, pvars>>
    /\ UNCHANGED <<workflow, stepIdx, thrownStep, events, cop, cpc, cstate, cresult,
                   observed, overlap>>
    /\ UNCHANGED svars

\* part_007:196-210  executeStep thrownStep: call addStepExecution with a failed record
ExecuteStepThrown ==
    /\ ExecuteMayRun
    /\ epc = "executeStep" /\ xpc = "thrown"
    /\ efr' = AddStepExecutionFrame(EId, FailedExecution(stepIdx + 1, lastFail.msg))
    /\ epc' = "addFailedExecution"
    /\ thrownStep' = stepIdx + 1
    /\ xpc' = "idle"
    /\ UNCHANGED <<xpolicy, retryCount, attempts, sleeps, lastFail, thrown, pattern, pvars>>
    /\ UNCHANGED <<workflow, mem, stepIdx, events, cop, cpc, cstate, cresult,
                   observed, overlap>>
    /\ UNCHANGED svars

\* part_007:185-194  addStepExecution returned: advance, emit stepCompleted, loop;
\* part_007:196-210  or it thrownStep: the same catch block records the step as failed
ExecuteRecordAdded ==
    /\ ExecuteMayRun
    /\ epc = "addStepExecution" /\ Finished(efr)
    /\ IF efr.pc = "done"
       THEN /\ mem' = [mem EXCEPT !.currentStepIndex = stepIdx + 1]
            /\ LoopHead(stepIdx + 1,
                        Append(events, Ev("stepCompleted", stepIdx + 1)))
       ELSE /\ mem' = mem
            /\ stepIdx' = stepIdx
            /\ events' = events
            /\ efr' = AddStepExecutionFrame(EId, FailedExecution(stepIdx + 1, {}))
            /\ epc' = "addFailedExecution"
            /\ UNCHANGED xvars
    /\ UNCHANGED <<workflow, thrownStep, cop, cpc, cstate, cresult, observed, overlap>>
    /\ UNCHANGED svars

\* part_007:210-218  the failed record is saved: emit stepFailed and rethrow;
\* or addStepExecution thrownStep inside the catch block, which propagates as well
ExecuteFailedRecordAdded ==
    /\ ExecuteMayRun
    /\ epc = "addFailedExecution" /\ Finished(efr)
    /\ IF efr.pc = "done"
       THEN IF RethrowsStepFailure
            THEN /\ stepIdx' = stepIdx
                 /\ Catch(Append(events, Ev("stepFailed", stepIdx + 1)))
            ELSE LoopHead(stepIdx + 1, Append(events, Ev("stepFailed", stepIdx + 1)))
       ELSE /\ stepIdx' = stepIdx
            /\ Catch(events)
    /\ UNCHANGED <<workflow, mem, thrownStep, cop, cpc, cstate, cresult, observed, overlap>>
    /\ UNCHANGED svars

\* part_007:75-79  updateSessionStatus(completed) returned: emit completed, return;
\* part_007:80-82  or it thrownStep: execute's catch block
ExecuteMarkedCompleted ==
    /\ ExecuteMayRun
    /\ epc = "markCompleted" /\ Finished(efr)
    /\ IF efr.pc = "done"
       THEN /\ events' = Append(events, Ev("completed", 0))
            /\ efr' = IdleFrame
            /\ epc' = "returned"
            /\ UNCHANGED xvars
       ELSE Catch(events)
    /\ UNCHANGED <<workflow, mem, stepIdx, thrownStep, cop, cpc, cstate, cresult,
                   observed, overlap>>
    /\ UNCHANGED svars

\* part_007:82-87  updateSessionStatus(failed) returned: emit failed and throw a
\* workflow error; or it thrownStep, and its state error leaves execute
ExecuteMarkedFailed ==
    /\ ExecuteMayRun
    /\ epc = "markFailed" /\ Finished(efr)
    /\ events' = IF efr.pc = "done" THEN Append(events, Ev("failed", 0)) ELSE events
    /\ efr' = IF efr.pc = "done" THEN IdleFrame ELSE efr
    /\ epc' = "thrown"
    /\ UNCHANGED <<workflow, mem, stepIdx, thrownStep, cop, cpc, cstate, cresult,
                   observed, overlap>>
    /\ UNCHANGED <<xvars, svars>>

\* the process running execute dies at one of its awaits
ExecuteCrash ==
    /\ epc \notin Stopped
    /\ cop = "idle"
    /\ crashes < MaxCrashes
    /\ crashes' = crashes + 1
    /\ epc' = "crashed"
    /\ efr' = IdleFrame
    /\ xpc' = "idle"
    /\ UNCHANGED <<xpolicy, retryCount, attempts, sleeps, lastFail, thrown, pattern, pvars>>
    /\ UNCHANGED <<workflow, mem, stepIdx, thrownStep, events, cop, cpc, cstate,
                   cresult, observed, overlap>>
    /\ UNCHANGED <<final, temp, faults, usedIds, cfr, snap, calls, now, cln>>

\* part_006:64-91  the attempts and sleeps of the executeStep call execute awaits
StepAttemptSucceeds ==
    /\ ExecuteMayRun
    /\ epc = "executeStep"
    /\ AttemptSucceeds
    /\ UNCHANGED <<svars, evars>>

StepAttemptFails ==
    /\ ExecuteMayRun
    /\ epc = "executeStep"
    /\ \E msg \in StepErrors : AttemptFails(msg)
    /\ UNCHANGED <<svars, evars>>

StepSleepDone ==
    /\ ExecuteMayRun
    /\ epc = "executeStep"
    /\ SleepDone
    /\ UNCHANGED <<svars, evars>>

(***************************************************************************)
(* pause, resume, getStatus and listSessions, called on execute's session. *)
(***************************************************************************)
\* the caller's engine call ends: it returned ("ok") or thrownStep ("thrown")
EndCall(result) ==
    /\ cresult' = [op |-> cop, result |-> result]
    /\ cop' = "idle"
    /\ cpc' = "idle"
    /\ cfr' = IdleFrame

BeginCall(op) ==
    /\ ControlMayBegin
    /\ cop = "idle"
    /\ calls < MaxControlOps
    /\ calls' = calls + 1
    /\ cop' = op
    /\ UNCHANGED <<workflow, epc, efr, mem, stepIdx, thrownStep, events, cstate,
                   cresult, observed, overlap>>
    /\ UNCHANGED <<final, temp, faults, crashes, usedIds, snap, now, cln>>
    /\ UNCHANGED xvars

\* part_007:133-136  pause(sessionId): loadSession
PauseCall ==
    /\ BeginCall("pause")
    /\ cfr' = LoadSessionFrame(EId)
    /\ cpc' = "loadSession"

\* part_007:94-95  resume(sessionId): stateManager.initialize()
ResumeCall ==
    /\ BeginCall("resume")
    /\ cfr' = IdleFrame
    /\ cpc' = "initialize"

\* part_007:245-247  getStatus(sessionId): loadSession
GetStatusCall ==
    /\ BeginCall("getStatus")
    /\ cfr' = LoadSessionFrame(EId)
    /\ cpc' = "loadSession"

\* part_007:257-258  listSessions(): stateManager.listSessions()
ListSessionsCall ==
    /\ BeginCall("listSessions")
    /\ cfr' = IdleFrame
    /\ cpc' = "listSessions"

\* the filesystem call the caller's State Manager call awaits completes
ControlFsStep ==
    /\ cop # "idle"
    /\ Running(cfr)
    /\ \E fk \in FsOutcomes(cfr) :
          LET r == FsStep(cfr, fk)
          IN  /\ cfr' = r.f
              /\ final' = r.final
              /\ temp' = r.temp
              /\ faults' = IF fk = "ok" THEN faults ELSE faults + 1
    /\ UNCHANGED <<crashes, usedIds, snap, calls, now, cln>>
    /\ UNCHANGED <<xvars, evars>>

\* part_007:136-145  pause: the session is loaded; reject unless it is running,
\* else call updateSessionStatus(paused)
PauseLoaded ==
    /\ cop = "pause" /\ cpc = "loadSession" /\ Finished(cfr)
    /\ IF cfr.pc = "done" /\ PauseAllowed(cfr.loaded.status)
       THEN /\ cstate' = cfr.loaded
            /\ cfr' = UpdateSessionStatusFrame(EId, "paused")
            /\ cpc' = "updateSessionStatus"
            /\ UNCHANGED <<cop, cresult>>
       ELSE /\ cstate' = cstate
            /\ EndCall("thrown")
    /\ UNCHANGED <<workflow, epc, efr, mem, stepIdx, thrownStep, events, observed, overlap>>
    /\ UNCHANGED <<final, temp, faults, crashes, usedIds, snap, calls, now, cln>>
    /\ UNCHANGED xvars

\* part_007:145-147  pause: updateSessionStatus returned: emit paused; or it thrownStep
PauseUpdated ==
    /\ cop = "pause" /\ cpc = "updateSessionStatus" /\ Finished(cfr)
    /\ IF cfr.pc = "done"
       THEN /\ events' = Append(events, Ev("paused", cstate.currentStepIndex))
            /\ EndCall("ok")
       ELSE /\ events' = events
            /\ EndCall("thrown")
    /\ UNCHANGED <<workflow, epc, efr, mem, stepIdx, thrownStep, cstate, observed, overlap>>
    /\ UNCHANGED <<final, temp, faults, crashes, usedIds, snap, calls, now, cln>>
    /\ UNCHANGED xvars

\* part_007:95-100  resume: initialize returned (loadSession is called) or thrownStep
ResumeInitialize ==
    /\ cop = "resume" /\ cpc = "initialize"
    /\ \E fk \in FaultOutcomes :
          IF fk = "ok"
          THEN /\ cfr' = LoadSessionFrame(EId)
               /\ cpc' = "loadSession"
               /\ faults' = faults
               /\ UNCHANGED <<cop, cresult>>
          ELSE /\ faults' = faults + 1
               /\ EndCall("thrown")
    /\ UNCHANGED <<workflow, epc, efr, mem, stepIdx, thrownStep, events, cstate,
                   observed, overlap>>
    /\ UNCHANGED <<final, temp, crashes, usedIds, snap, calls, now, cln>>
    /\ UNCHANGED xvars

\* part_007:100-121  resume: the session is loaded; reject unless it is paused,
\* else emit resumed, throw "not yet implemented" and mark the session failed
ResumeLoaded ==
    /\ cop = "resume" /\ cpc = "loadSession" /\ Finished(cfr)
    /\ IF cfr.pc = "done" /\ ResumeAllowed(cfr.loaded.status)
       THEN /\ cstate' = cfr.loaded
            /\ events' = Append(events, Ev("resumed", cfr.loaded.currentStepIndex))
            /\ cfr' = UpdateSessionStatusFrame(EId, "failed")
            /\ cpc' = "updateSessionStatus"
            /\ UNCHANGED <<cop, cresult>>
       ELSE /\ cstate' = cstate
            /\ events' = events
            /\ EndCall("thrown")
    /\ UNCHANGED <<workflow, epc, efr, mem, stepIdx, thrownStep, observed, overlap>>
    /\ UNCHANGED <<final, temp, faults, crashes, usedIds, snap, calls, now, cln>>
    /\ UNCHANGED xvars

\* part_007:121-126  resume: updateSessionStatus(failed) returned: emit failed and
\* throw; or it thrownStep
ResumeUpdated ==
    /\ cop = "resume" /\ cpc = "updateSessionStatus" /\ Finished(cfr)
    /\ events' = IF cfr.pc = "done" THEN Append(events, Ev("failed", 0)) ELSE events
    /\ EndCall("thrown")
    /\ UNCHANGED <<workflow, epc, efr, mem, stepIdx, thrownStep, cstate, observed, overlap>>
    /\ UNCHANGED <<final, temp, faults, crashes, usedIds, snap, calls, now, cln>>
    /\ UNCHANGED xvars

\* part_007:245-251  getStatus: the mapped state, or null when loadSession thrownStep
GetStatusLoaded ==
    /\ cop = "getStatus" /\ cpc = "loadSession" /\ Finished(cfr)
    /\ observed' = IF cfr.pc = "done" THEN cfr.loaded.status ELSE "null"
    /\ EndCall("ok")
    /\ UNCHANGED <<workflow, epc, efr, mem, stepIdx, thrownStep, events, cstate, overlap>>
    /\ UNCHANGED <<final, temp, faults, crashes, usedIds, snap, calls, now, cln>>
    /\ UNCHANGED xvars

\* part_007:258-262, state-manager.ts:262-308  stateManager.listSessions reads the
\* partitions: it throws when a readdir fails, skips files it cannot parse, and for
\* a session it lists the engine calls loadSession
ListSessionsListed ==
    /\ cop = "listSessions" /\ cpc = "listSessions"
    /\ \E fk \in FaultOutcomes :
          /\ faults' = IF fk = "ok" THEN faults ELSE faults + 1
          /\ IF fk # "ok"
             THEN /\ observed' = observed
                  /\ EndCall("thrown")
             ELSE IF \E p \in Statuses : final[EId][p].kind = "json"
             THEN /\ observed' = observed
                  /\ cfr' = LoadSessionFrame(EId)
                  /\ cpc' = "loadSession"
                  /\ UNCHANGED <<cop, cresult>>
             ELSE /\ observed' = "empty"
                  /\ EndCall("ok")
    /\ UNCHANGED <<workflow, epc, efr, mem, stepIdx, thrownStep, events, cstate, overlap>>
    /\ UNCHANGED <<final, temp, crashes, usedIds, snap, calls, now, cln>>
    /\ UNCHANGED xvars

\* part_007:262-268  listSessions: loadSession returned (the state is mapped and
\* pushed) or thrownStep (the error leaves listSessions)
ListSessionsLoaded ==
    /\ cop = "listSessions" /\ cpc = "loadSession" /\ Finished(cfr)
    /\ IF cfr.pc = "done"
       THEN /\ observed' = cfr.loaded.status
            /\ EndCall("ok")
       ELSE /\ observed' = observed
            /\ EndCall("thrown")
    /\ UNCHANGED <<workflow, epc, efr, mem, stepIdx, thrownStep, events, cstate, overlap>>
    /\ UNCHANGED <<final, temp, faults, crashes, usedIds, snap, calls, now, cln>>
    /\ UNCHANGED xvars

(***************************************************************************)
(* SpecEngineSeq: one execute run of any workflow of at most MaxSteps      *)
(* steps, followed (after it returned, thrownStep, or its process died) by the  *)
(* caller's pause / resume / getStatus / listSessions calls, one at a      *)
(* time, with filesystem calls free to fail while the budget lasts.        *)
(***************************************************************************)
InitEngineSeq ==
    /\ InitStore
    /\ ExecutorIdle
    /\ workflow \in Workflows
    /\ epc = "notStarted"
    /\ efr = IdleFrame
    /\ mem = NoFile
    /\ stepIdx = 0
    /\ thrownStep = 0
    /\ events = <<>>
    /\ cop = "idle"
    /\ cpc = "idle"
    /\ cstate = NoFile
    /\ cresult = NoResult
    /\ observed = "none"
    /\ overlap = FALSE

NextEngineSeq ==
    \/ ExecuteCall
    \/ ExecuteInitialize
    \/ ExecuteFsStep
    \/ ExecuteCreated
    \/ ExecuteLoaded
    \/ StepAttemptSucceeds
    \/ StepAttemptFails
    \/ StepSleepDone
    \/ ExecuteStepReturned
    \/ ExecuteStepThrown
    \/ ExecuteRecordAdded
    \/ ExecuteFailedRecordAdded
    \/ ExecuteMarkedCompleted
    \/ ExecuteMarkedFailed
    \/ ExecuteCrash
    \/ PauseCall
    \/ ResumeCall
    \/ GetStatusCall
    \/ ListSessionsCall
    \/ ControlFsStep
    \/ PauseLoaded
    \/ PauseUpdated
    \/ ResumeInitialize
    \/ ResumeLoaded
    \/ ResumeUpdated
    \/ GetStatusLoaded
    \/ ListSessionsListed
    \/ ListSessionsLoaded

SpecEngineSeq == InitEngineSeq /\ [][NextEngineSeq]_vars

(***************************************************************************)
(* SpecEngine: the same engine with the caller's pause / resume /          *)
(* getStatus calls free to run while execute is suspended at any of its    *)
(* awaits, so that the filesystem calls of the two interleave.  No         *)
(* filesystem call fails and no process dies here: both budgets are spent  *)
(* from the start.                                                         *)
(***************************************************************************)
InitEngine ==
    /\ final = NoDisk
    /\ temp = NoDisk
    /\ faults = MaxFaults
    /\ crashes = MaxCrashes
    /\ usedIds = {}
    /\ cfr = IdleFrame
    /\ snap = NoDisk
    /\ calls = 0
    /\ now = 0
    /\ cln = NoCleanup
    /\ ExecutorIdle
    /\ workflow \in Workflows
    /\ epc = "notStarted"
    /\ efr = IdleFrame
    /\ mem = NoFile
    /\ stepIdx = 0
    /\ thrownStep = 0
    /\ events = <<>>
    /\ cop = "idle"
    /\ cpc = "idle"
    /\ cstate = NoFile
    /\ cresult = NoResult
    /\ observed = "none"
    /\ overlap = TRUE

NextEngine ==
    \/ ExecuteCall
    \/ ExecuteInitialize
    \/ ExecuteFsStep
    \/ ExecuteCreated
    \/ ExecuteLoaded
    \/ StepAttemptSucceeds
    \/ StepAttemptFails
    \/ StepSleepDone
    \/ ExecuteStepReturned
    \/ ExecuteStepThrown
    \/ ExecuteRecordAdded
    \/ ExecuteFailedRecordAdded
    \/ ExecuteMarkedCompleted
    \/ ExecuteMarkedFailed
    \/ PauseCall
    \/ ResumeCall
    \/ GetStatusCall
    \/ ControlFsStep
    \/ PauseLoaded
    \/ PauseUpdated
    \/ ResumeInitialize
    \/ ResumeLoaded
    \/ ResumeUpdated
    \/ GetStatusLoaded

SpecEngine == InitEngine /\ [][NextEngine]_vars

(***************************************************************************)
(* SpecRun: one execute run on its own, every call it awaits returning    *)
(* (with a result or, while the budget lasts, with an error) and the run   *)
(* being continued each time: the steps of execute are weakly fair.        *)
(***************************************************************************)
NextRun ==
    \/ ExecuteCall
    \/ ExecuteInitialize
    \/ ExecuteFsStep
    \/ ExecuteCreated
    \/ ExecuteLoaded
    \/ StepAttemptSucceeds
    \/ StepAttemptFails
    \/ StepSleepDone
    \/ ExecuteStepReturned
    \/ ExecuteStepThrown
    \/ ExecuteRecordAdded
    \/ ExecuteFailedRecordAdded
    \/ ExecuteMarkedCompleted
    \/ ExecuteMarkedFailed

SpecRun == InitEngineSeq /\ [][NextRun]_vars /\ WF_vars(NextRun)

(***************************************************************************)
(* SpecRetry: one executeStep call on a step with any of the policies,     *)
(* every attempt free to succeed or to fail with any of the errors.        *)
(***************************************************************************)
InitRetry ==
    /\ xpolicy \in Policies
    /\ xpc = "attempt"
    /\ retryCount = 0
    /\ attempts = 0
    /\ sleeps = <<>>
    /\ lastFail = NoFail
    /\ thrown = NoError
    /\ pattern = "none"
    /\ call = NoCall
    /\ ret = NoReturn
    /\ compiledCache = <<>>
    /\ InitStore
    /\ EngineIdle

RetryAttemptSucceeds == AttemptSucceeds /\ UNCHANGED <<svars, evars>>

RetryAttemptFails == (\E msg \in ErrorMessages : AttemptFails(msg)) /\ UNCHANGED <<svars, evars>>

RetrySleepDone == SleepDone /\ UNCHANGED <<svars, evars>>

NextRetry ==
    \/ RetryAttemptSucceeds
    \/ RetryAttemptFails
    \/ RetrySleepDone

SpecRetry == InitRetry /\ [][NextRetry]_vars

(***************************************************************************)
(* SpecClassify: classifyError is called on any thrown value.              *)
(***************************************************************************)
InitClassify == InitStore /\ ExecutorIdle /\ EngineIdle

ClassifyCall ==
    /\ pattern = "none"
    /\ \E error \in ThrownValues :
          /\ thrown' = error
          /\ pattern' = ClassifyThrown(error)
    /\ UNCHANGED <<xpolicy, xpc, retryCount, attempts, sleeps, lastFail, pvars>>
    /\ UNCHANGED <<svars, evars>>

NextClassify == ClassifyCall

SpecClassify == InitClassify /\ [][NextClassify]_vars

(***************************************************************************)
(* The safe expression evaluator.  An expression is the sequence of its    *)
(* tokens, the white space between them being what trim() removes: the     *)
(* operators && and ||, the negation !, parentheses, and variable names.   *)
(***************************************************************************)
\* longest expression, in tokens
MaxExprLen == 5

ExprVariables == {"a", "b", "c"}

ExprTokens == ExprVariables \cup {"&&", "||", "!", "(", ")"}

Expressions == UNION { [1..n -> ExprTokens] : n \in 0..MaxExprLen }

\* the context.variables the expressions are evaluated against
Assignments == [ExprVariables -> BOOLEAN]

\* expr.includes(op)
Contains(expr, op) == \E i \in DOMAIN expr : expr[i] = op

\* expr.split(op).map(part => part.trim())
RECURSIVE SplitOn(_, _)
SplitOn(expr, op) ==
    IF ~Contains(expr, op) THEN <<expr>>
    ELSE LET i == CHOOSE k \in DOMAIN expr :
                     expr[k] = op /\ \A j \in 1..(k - 1) : expr[j] # op
         IN  <<SubSeq(expr, 1, i - 1)>> \o SplitOn(SubSeq(expr, i + 1, Len(expr)), op)

\* part_006:392  expr.match(/^\((.+)\)$/): the expression begins with "("
\* and ends with ")"
FullyWrapped(expr) == Len(expr) >= 2 /\ expr[1] = "(" /\ expr[Len(expr)] = ")"

\* part_006:394  parenMatch[1]: what is between the two
Unwrapped(expr) == SubSeq(expr, 2, Len(expr) - 1)

\* a mutation of safeExpressionEvaluator: the parentheses are looked for
\* before the operators
SplitOperatorUnlessWrapped(expr) ==
    IF FullyWrapped(expr) THEN "none"
    ELSE IF Contains(expr, "&&") THEN "&&"
    ELSE IF Contains(expr, "||") THEN "||"
    ELSE "none"

\* a mutation of safeExpressionEvaluator: || is looked for before &&
SplitOperatorOrFirst(expr) ==
    IF Contains(expr, "||") THEN "||"
    ELSE IF Contains(expr, "&&") THEN "&&"
    ELSE "none"

\* part_006:375-383  the operator the expression is split on: && when it
\* occurs, else || when it occurs
SplitOperator(expr) ==
    IF Contains(expr, "&&") THEN "&&"
    ELSE IF Contains(expr, "||") THEN "||"
    ELSE "none"

\* the names a condition may use: the variables above, and the two flags a
\* loop adds to the context of an iteration
Identifiers == ExprVariables \cup {"first", "last"}

\* part_006:431-454, 483-495  resolveExpressionValue of an expression without
\* operator: Boolean() of the variable's value, which is undefined when the
\* context has no such variable; "throw" for anything that is not one value
ResolveExpressionValue(expr, variables) ==
    IF Len(expr) = 1 /\ expr[1] \in Identifiers
    THEN (IF expr[1] \in DOMAIN variables /\ variables[expr[1]] THEN "true" ELSE "false")
    ELSE "throw"

\* part_006:370-426  safeExpressionEvaluator(expression, variables): "true",
\* "false", or "throw" when a part cannot be resolved; every() stops at the
\* first part that is false, some() at the first that is true
RECURSIVE SafeExpressionEvaluator(_, _)
RECURSIVE EveryPart(_, _, _)
RECURSIVE SomePart(_, _, _)
EveryPart(parts, k, variables) ==
    IF k > Len(parts) THEN "true"
    ELSE LET r == SafeExpressionEvaluator(parts[k], variables)
         IN  IF r = "true" THEN EveryPart(parts, k + 1, variables) ELSE r

SomePart(parts, k, variables) ==
    IF k > Len(parts) THEN "false"
    ELSE LET r == SafeExpressionEvaluator(parts[k], variables)
         IN  IF r = "false" THEN SomePart(parts, k + 1, variables) ELSE r

SafeExpressionEvaluator(expr, variables) ==
    IF SplitOperator(expr) = "&&"
    THEN EveryPart(SplitOn(expr, "&&"), 1, variables)
    ELSE IF SplitOperator(expr) = "||"
    THEN SomePart(SplitOn(expr, "||"), 1, variables)
    ELSE IF Len(expr) > 0 /\ expr[1] = "!"
    THEN LET r == SafeExpressionEvaluator(Tail(expr), variables)
         IN  IF r = "throw" THEN "throw" ELSE IF r = "true" THEN "false" ELSE "true"
    ELSE IF FullyWrapped(expr)
    THEN SafeExpressionEvaluator(Unwrapped(expr), variables)
    ELSE ResolveExpressionValue(expr, variables)

(***************************************************************************)
(* SpecEvaluate: safeExpressionEvaluator is called on any expression.      *)
(***************************************************************************)
InitEvaluate == InitStore /\ ExecutorIdle /\ EngineIdle

EvaluateCall ==
    /\ call = NoCall
    /\ \E expr \in Expressions, variables \in Assignments :
          /\ call' = [fn |-> "safeExpressionEvaluator", expression |-> expr,
                      variables |-> variables]
          /\ ret' = [kind |-> SafeExpressionEvaluator(expr, variables)]
    /\ UNCHANGED <<xpolicy, xpc, retryCount, attempts, sleeps, lastFail, thrown, pattern,
                   compiledCache>>
    /\ UNCHANGED <<svars, evars>>

NextEvaluate == EvaluateCall

SpecEvaluate == InitEvaluate /\ [][NextEvaluate]_vars

(***************************************************************************)
(* The template engine.  A template is the sequence of its pieces: literal *)
(* text, an expression ${...} given by the words between the braces, or a  *)
(* "${" that no "}" follows before the next piece.                         *)
(***************************************************************************)
\* longest template, in pieces
MaxTemplateLen == 4

\* part_008:61-80  the names of the built-in filters
FILTERS == {"uppercase", "lowercase", "truncate", "capitalize", "trim", "default"}

Text(chars) == [kind |-> "text", words |-> chars]

Expr(words) == [kind |-> "expr", words |-> words]

Open == [kind |-> "open", words |-> <<>>]

Pieces ==
    { Text(<<"t">>), Open,
      Expr(<<"x">>), Expr(<<"x", "|", "nope">>),
      Expr(<<"if", "flag">>), Expr(<<"endif">>),
      Expr(<<"foreach", "item", "in", "items">>), Expr(<<"foreach", "item">>),
      Expr(<<"endforeach">>) }

Templates == UNION { [1..n -> Pieces] : n \in 0..MaxTemplateLen }

Token(type, value) == [type |-> type, value |-> value]

\* part_008:148-168  the token of the expression between ${ and }
TokenOf(words) ==
    IF Len(words) > 1 /\ words[1] = "if" THEN Token("IF_START", Tail(words))
    ELSE IF words = <<"endif">> THEN Token("IF_END", <<>>)
    ELSE IF Len(words) > 1 /\ words[1] = "foreach" THEN Token("FOREACH_START", Tail(words))
    ELSE IF words = <<"endforeach">> THEN Token("FOREACH_END", <<>>)
    ELSE Token("VARIABLE", words)

\* part_008:178-180  TEXT tokens: text is buffered up to the next expression
AppendText(tokens, chars) ==
    IF tokens # <<>> /\ tokens[Len(tokens)].type = "TEXT"
    THEN [tokens EXCEPT ![Len(tokens)].value = @ \o chars]
    ELSE Append(tokens, Token("TEXT", chars))

\* the text from a "${" up to the "}" of the expression at position close:
\* the pieces in between, braces included, are the words of one expression
RECURSIVE Swallowed(_, _, _)
Swallowed(template, position, close) ==
    IF position > close THEN <<>>
    ELSE (IF template[position].kind = "text" THEN template[position].words
          ELSE <<"${">> \o template[position].words)
         \o Swallowed(template, position + 1, close)

\* part_008:124-186  tokenize(template): the tokens, or the error thrown for
\* a "${" with no "}" after it
RECURSIVE TokenizeFrom(_, _, _)
TokenizeFrom(template, position, tokens) ==
    IF position > Len(template) THEN [error |-> "none", tokens |-> tokens]
    ELSE LET piece == template[position]
             closers == {j \in (position + 1)..Len(template) : template[j].kind = "expr"}
             close == CHOOSE j \in closers : \A k \in closers : j <= k
         IN  CASE piece.kind = "text" ->
                     TokenizeFrom(template, position + 1, AppendText(tokens, piece.words))
               [] piece.kind = "expr" ->
                     TokenizeFrom(template, position + 1,
                                  Append(tokens, TokenOf(piece.words)))
               [] piece.kind = "open" ->
                     IF closers = {}
                     THEN [error |-> "Unclosed template expression", tokens |-> tokens]
                     ELSE TokenizeFrom(template, close + 1,
                              Append(tokens,
                                     TokenOf(Swallowed(template, position + 1, close))))

Tokenize(template) == TokenizeFrom(template, 1, <<>>)

\* expression.split('|'): the words of each part
RECURSIVE SplitWords(_)
SplitWords(words) ==
    IF ~Contains(words, "|") THEN <<words>>
    ELSE LET i == CHOOSE k \in DOMAIN words :
                     words[k] = "|" /\ \A j \in 1..(k - 1) : words[j] # "|"
         IN  <<SubSeq(words, 1, i - 1)>> \o SplitWords(SubSeq(words, i + 1, Len(words)))

\* part_008:239-253  parseVariable(expression): the node, or Unknown filter
ParseVariable(words) ==
    LET parts == SplitWords(words)
        filters == Tail(parts)
    IN  IF \E i \in DOMAIN filters : Len(filters[i]) # 1 \/ filters[i][1] \notin FILTERS
        THEN [error |-> "Unknown filter", node |-> <<>>]
        ELSE [error |-> "none",
              node |-> [type |-> "variable", path |-> parts[1],
                        filters |-> [i \in DOMAIN filters |-> filters[i][1]]]]

\* a mutation of parseConditional / parseLoop: either terminator closes a block
ClosesAnyBlock(block, type) == block # "top" /\ type \in {"IF_END", "FOREACH_END"}

\* part_008:269, 320  the terminator that ends the block being parsed
Closes(block, type) ==
    \/ block = "conditional" /\ type = "IF_END"
    \/ block = "loop" /\ type = "FOREACH_END"

ParseError(message) == [error |-> message, nodes |-> <<>>, node |-> <<>>, nextIndex |-> 0]

\* part_008:197-233, 266-294, 317-345  the token loops of buildAST ("top"),
\* parseConditional and parseLoop: the nodes up to the end of the block
RECURSIVE ParseNodes(_, _, _, _)
RECURSIVE ParseConditional(_, _)
RECURSIVE ParseLoop(_, _)
ParseNodes(tokens, index, block, nodes) ==
    IF index > Len(tokens)
    THEN CASE block = "top" ->
                 [error |-> "none", nodes |-> nodes, node |-> <<>>, nextIndex |-> index]
           [] block = "conditional" -> ParseError("Unclosed conditional block")
           [] block = "loop" -> ParseError("Unclosed foreach block")
    ELSE LET token == tokens[index]
         IN  CASE Closes(block, token.type) ->
                     [error |-> "none", nodes |-> nodes, node |-> <<>>,
                      nextIndex |-> index + 1]
               [] ~Closes(block, token.type) /\ token.type = "IF_START" ->
                     LET r == ParseConditional(tokens, index)
                     IN  IF r.error # "none" THEN r
                         ELSE ParseNodes(tokens, r.nextIndex, block, Append(nodes, r.node))
               [] ~Closes(block, token.type) /\ token.type = "FOREACH_START" ->
                     LET r == ParseLoop(tokens, index)
                     IN  IF r.error # "none" THEN r
                         ELSE ParseNodes(tokens, r.nextIndex, block, Append(nodes, r.node))
               [] ~Closes(block, token.type) /\ token.type = "TEXT" ->
                     ParseNodes(tokens, index + 1, block,
                                Append(nodes, [type |-> "text", value |-> token.value]))
               [] ~Closes(block, token.type) /\ token.type = "VARIABLE" ->
                     LET v == ParseVariable(token.value)
                     IN  IF v.error # "none" THEN ParseError(v.error)
                         ELSE ParseNodes(tokens, index + 1, block, Append(nodes, v.node))
               [] OTHER -> ParseError("Unexpected token")

\* part_008:258-297  parseConditional(tokens, startIndex)
ParseConditional(tokens, startIndex) ==
    LET r == ParseNodes(tokens, startIndex + 1, "conditional", <<>>)
    IN  IF r.error # "none" THEN r
        ELSE [r EXCEPT !.nodes = <<>>,
                       !.node = [type |-> "conditional",
                                 condition |-> tokens[startIndex].value,
                                 trueBranch |-> r.nodes]]

\* part_008:302-348  parseLoop(tokens, startIndex): the header must read
\* "item in collection"
ParseLoop(tokens, startIndex) ==
    LET loopExpr == tokens[startIndex].value
    IN  IF ~(Len(loopExpr) >= 3 /\ loopExpr[2] = "in")
        THEN ParseError("Invalid foreach syntax")
        ELSE LET r == ParseNodes(tokens, startIndex + 1, "loop", <<>>)
             IN  IF r.error # "none" THEN r
                 ELSE [r EXCEPT !.nodes = <<>>,
                                !.node = [type |-> "loop", itemName |-> loopExpr[1],
                                          collectionPath |-> SubSeq(loopExpr, 3, Len(loopExpr)),
                                          body |-> r.nodes]]

\* part_008:197-233  buildAST(tokens)
BuildAST(tokens) == ParseNodes(tokens, 1, "top", <<>>)

\* part_008:116-117  tokenize, then buildAST: the AST or the template error
Compile(template) ==
    LET t == Tokenize(template)
    IN  IF t.error # "none" THEN [error |-> t.error, ast |-> <<>>]
        ELSE LET b == BuildAST(t.tokens)
             IN  [error |-> b.error, ast |-> b.nodes]

\* the values of a rendering context
Undefined == [t |-> "undefined", b |-> FALSE, n |-> 0, s |-> <<>>, a |-> <<>>]

Null == [t |-> "null", b |-> FALSE, n |-> 0, s |-> <<>>, a |-> <<>>]

Bool(b) == [t |-> "boolean", b |-> b, n |-> 0, s |-> <<>>, a |-> <<>>]

Num(n) == [t |-> "number", b |-> FALSE, n |-> n, s |-> <<>>, a |-> <<>>]

Str(chars) == [t |-> "string", b |-> FALSE, n |-> 0, s |-> chars, a |-> <<>>]

Arr(items) == [t |-> "array", b |-> FALSE, n |-> 0, s |-> <<>>, a |-> items]

\* an object that is not an array: {}
Obj == [t |-> "object", b |-> FALSE, n |-> 0, s |-> <<>>, a |-> <<>>]

\* part_008:454-474  resolvePath(path, context) for a path of one key
ResolvePath(path, context) ==
    IF Len(path) = 1 /\ path[1] \in DOMAIN context THEN context[path[1]] ELSE Undefined

\* part_008:479-490  isTruthy(value)
IsTruthy(value) ==
    CASE value.t \in {"null", "undefined"} -> FALSE
      [] value.t = "boolean" -> value.b
      [] value.t = "number" -> value.n # 0
      [] value.t = "string" -> value.s # <<>>
      [] value.t = "array" -> value.a # <<>>
      [] value.t = "object" -> TRUE

\* String(value ?? ''), an array being joined with commas
RECURSIVE Join(_)
Join(items) ==
    IF items = <<>> THEN <<>>
    ELSE IF Len(items) = 1 THEN items[1].s
    ELSE items[1].s \o <<",">> \o Join(Tail(items))

StringOf(value) ==
    CASE value.t = "undefined" -> <<>>
      [] value.t = "boolean" -> IF value.b THEN <<"true">> ELSE <<"false">>
      [] value.t = "string" -> value.s
      [] value.t = "array" -> Join(value.a)

UpperOf(c) == CASE c = "v" -> "V" [] c = "w" -> "W" [] c = "t" -> "T" [] OTHER -> c

\* part_008:61-80  the built-in filters, on text short enough not to be truncated
ApplyFilter(name, value) ==
    LET text == StringOf(value)
    IN  CASE name \in {"uppercase", "capitalize"} ->
                 Str([i \in DOMAIN text |-> UpperOf(text[i])])
          [] OTHER -> Str(text)

RECURSIVE ApplyFilters(_, _)
ApplyFilters(filters, value) ==
    IF filters = <<>> THEN value
    ELSE ApplyFilters(Tail(filters), ApplyFilter(Head(filters), value))

\* part_008:382-407  evaluateVariable(node, context)
EvaluateVariable(node, context) ==
    StringOf(ApplyFilters(node.filters, ResolvePath(node.path, context)))

\* part_008:353-377, 412-449  evaluate(nodes, context), evaluateConditional and
\* evaluateLoop: the output, as the sequence of its characters
RECURSIVE Evaluate(_, _)
RECURSIVE EvaluateLoop(_, _, _)
Evaluate(nodes, context) ==
    IF nodes = <<>> THEN <<>>
    ELSE LET node == Head(nodes)
             out == CASE node.type = "text" -> node.value
                      [] node.type = "variable" -> EvaluateVariable(node, context)
                      [] node.type = "conditional" ->
                            IF IsTruthy(ResolvePath(node.condition, context))
                            THEN Evaluate(node.trueBranch, context)
                            ELSE <<>>
                      [] node.type = "loop" ->
                            LET collection == ResolvePath(node.collectionPath, context)
                            IN  IF collection.t # "array" THEN <<>>
                                ELSE EvaluateLoop(node, context, collection.a)
         IN  out \o Evaluate(Tail(nodes), context)

EvaluateLoop(node, context, items) ==
    IF items = <<>> THEN <<>>
    ELSE Evaluate(node.body, Merge(context, (node.itemName :> Head(items))))
         \o EvaluateLoop(node, context, Tail(items))

\* a mutation of parse: every template is cached under one key
CacheKeyShared(template) == <<>>

\* part_008:109, 120  the key of a template in compiledCache: the template
CacheKey(template) == template

\* part_008:107-122  parse(template): the cached AST, or the compiled one,
\* which is cached; an error is not cached
Parse(template, cache) ==
    IF CacheKey(template) \in DOMAIN cache
    THEN [error |-> "none", ast |-> cache[CacheKey(template)], cache |-> cache]
    ELSE LET c == Compile(template)
         IN  IF c.error # "none" THEN [error |-> c.error, ast |-> <<>>, cache |-> cache]
             ELSE [error |-> "none", ast |-> c.ast,
                   cache |-> [k \in DOMAIN cache \cup {CacheKey(template)} |->
                                 IF k = CacheKey(template) THEN c.ast ELSE cache[k]]]

\* part_008:88-91  what render(template, context) returns or throws
RenderResult(template, context, cache) ==
    LET r == Parse(template, cache)
    IN  IF r.error # "none" THEN [kind |-> "TemplateError", message |-> r.error, text |-> <<>>]
        ELSE [kind |-> "returned", message |-> "none", text |-> Evaluate(r.ast, context)]

\* part_008:96-104  what validate(template) returns
ValidateResult(template, cache) ==
    LET r == Parse(template, cache)
    IN  IF r.error # "none" THEN [kind |-> "invalid", message |-> r.error, text |-> <<>>]
        ELSE [kind |-> "valid", message |-> "none", text |-> <<>>]

\* the rendering contexts
Contexts ==
    { ("x" :> Str(<<"v">>)) @@ ("flag" :> Bool(TRUE))
                            @@ ("items" :> Arr(<<Str(<<"v">>), Str(<<"w">>)>>)),
      ("x" :> Str(<<"w">>)) @@ ("flag" :> Bool(FALSE)) @@ ("items" :> Arr(<<>>)) }

(***************************************************************************)
(* SpecParse: render or validate is called on any template, on a new       *)
(* TemplateEngine.                                                         *)
(***************************************************************************)
InitParse == InitStore /\ ExecutorIdle /\ EngineIdle

\* part_008:88-91  render(template, context)
RenderCall(templates, limit) ==
    /\ call.n < limit
    /\ \E template \in templates, context \in Contexts :
          /\ call' = [fn |-> "render", template |-> template, context |-> context,
                      n |-> call.n + 1,
                      cached |-> CacheKey(template) \in DOMAIN compiledCache]
          /\ ret' = RenderResult(template, context, compiledCache)
          /\ compiledCache' = Parse(template, compiledCache).cache
    /\ UNCHANGED <<xpolicy, xpc, retryCount, attempts, sleeps, lastFail, thrown, pattern>>
    /\ UNCHANGED <<svars, evars>>

\* part_008:96-104  validate(template)
ValidateCall(templates, limit) ==
    /\ call.n < limit
    /\ \E template \in templates :
          /\ call' = [fn |-> "validate", template |-> template, context |-> <<>>,
                      n |-> call.n + 1,
                      cached |-> CacheKey(template) \in DOMAIN compiledCache]
          /\ ret' = ValidateResult(template, compiledCache)
          /\ compiledCache' = Parse(template, compiledCache).cache
    /\ UNCHANGED <<xpolicy, xpc, retryCount, attempts, sleeps, lastFail, thrown, pattern>>
    /\ UNCHANGED <<svars, evars>>

ParseRender == RenderCall(Templates, 1)

ParseValidate == ValidateCall(Templates, 1)

NextParse == ParseRender \/ ParseValidate

SpecParse == InitParse /\ [][NextParse]_vars

(***************************************************************************)
(* SpecTemplate: one TemplateEngine on which render, validate and          *)
(* clearCache are called in any order.                                     *)
(***************************************************************************)
\* calls made on the one engine
MaxTemplateCalls == 3

\* "t${x}", "${if flag}${x | uppercase}${endif}",
\* "${foreach item in items}${item}${endforeach}", "", and the unclosed
\* "${if flag}t"
SampleTemplates ==
    { <<Text(<<"t">>), Expr(<<"x">>)>>,
      <<Expr(<<"if", "flag">>), Expr(<<"x", "|", "uppercase">>), Expr(<<"endif">>)>>,
      <<Expr(<<"foreach", "item", "in", "items">>), Expr(<<"item">>),
        Expr(<<"endforeach">>)>>,
      <<>>,
      <<Expr(<<"if", "flag">>), Text(<<"t">>)>> }

InitTemplate == InitStore /\ ExecutorIdle /\ EngineIdle

TemplateRender == RenderCall(SampleTemplates, MaxTemplateCalls)

TemplateValidate == ValidateCall(SampleTemplates, MaxTemplateCalls)

\* part_008:495-497  clearCache()
TemplateClearCache ==
    /\ call.n < MaxTemplateCalls
    /\ call' = [fn |-> "clearCache", template |-> <<>>, context |-> <<>>, n |-> call.n + 1,
                cached |-> FALSE]
    /\ ret' = NoReturn
    /\ compiledCache' = <<>>
    /\ UNCHANGED <<xpolicy, xpc, retryCount, attempts, sleeps, lastFail, thrown, pattern>>
    /\ UNCHANGED <<svars, evars>>

NextTemplate == TemplateRender \/ TemplateValidate \/ TemplateClearCache

SpecTemplate == InitTemplate /\ [][NextTemplate]_vars

(***************************************************************************)
(* Step dispatch.  A step is a record: its id, type and retryPolicy, the   *)
(* command of a script (a template), the condition of a validation or      *)
(* conditional (the tokens of an expression, which hold no "${" and are    *)
(* rendered to themselves), the items of a loop (the name of a context     *)
(* variable) and the child steps of a loop or conditional.  failsOn is the *)
(* environment of a script: the dispatches of it, counted from one, on     *)
(* which runCommand fails.                                                 *)
(***************************************************************************)
\* most items of the array a loop step runs over
MaxItems == 3

ItemPool == <<"x", "y", "z", "u", "w">>

\* a policy with no retryOn list: maxAttempts 1
RetryOnce ==
    [has |-> TRUE, maxAttempts |-> 1, hasBackoff |-> FALSE, backoffMs |-> 0,
     hasRetryOn |-> FALSE, retryOn |-> {}]

\* a policy whose retryOn does not list validation_error
RetryOnTimeout ==
    [has |-> TRUE, maxAttempts |-> 1, hasBackoff |-> FALSE, backoffMs |-> 0,
     hasRetryOn |-> TRUE, retryOn |-> {"timeout"}]

\* a policy whose retryOn lists validation_error
RetryOnValidation ==
    [has |-> TRUE, maxAttempts |-> 1, hasBackoff |-> FALSE, backoffMs |-> 0,
     hasRetryOn |-> TRUE, retryOn |-> {"validation_error"}]

\* a policy whose retryOn lists the fallback pattern
RetryOnTemporary ==
    [has |-> TRUE, maxAttempts |-> 1, hasBackoff |-> FALSE, backoffMs |-> 0,
     hasRetryOn |-> TRUE, retryOn |-> {"temporary_failure"}]

\* the command "t", and the command "${if a}t" whose block is not closed
GoodCommand == <<Text(<<"t">>)>>

BadCommand == <<Expr(<<"if", "a">>), Text(<<"t">>)>>

ScriptStep(id, policy, command, failsOn) ==
    [id |-> id, type |-> "script", retryPolicy |-> policy, command |-> command,
     failsOn |-> failsOn, condition |-> <<>>, items |-> "", steps |-> <<>>]

AIPromptStep(id, policy) ==
    [id |-> id, type |-> "ai-prompt", retryPolicy |-> policy, command |-> GoodCommand,
     failsOn |-> {}, condition |-> <<>>, items |-> "", steps |-> <<>>]

ValidationStep(id, policy, condition) ==
    [id |-> id, type |-> "validation", retryPolicy |-> policy, command |-> <<>>,
     failsOn |-> {}, condition |-> condition, items |-> "", steps |-> <<>>]

LoopStep(id, policy, items, steps) ==
    [id |-> id, type |-> "loop", retryPolicy |-> policy, command |-> <<>>,
     failsOn |-> {}, condition |-> <<>>, items |-> items, steps |-> steps]

ConditionalStep(id, policy, condition, steps) ==
    [id |-> id, type |-> "conditional", retryPolicy |-> policy, command |-> <<>>,
     failsOn |-> {}, condition |-> condition, items |-> "", steps |-> steps]

\* a thrown error: its class and the classification keywords of its message
StepError(name, msg) == [name |-> name, msg |-> msg]

NoStepError == StepError("none", {})

\* the messages of part_008 ("Unclosed conditional block", ...) hold no
\* classification keyword
TemplateErrorKeywords == {}

\* part_006:204  "Validation failed: <condition>"
ValidationFailedKeywords == {"validation"}

\* part_006:362  "Invalid condition: <condition>"
InvalidConditionKeywords == {}

\* part_006:179  "Script execution failed: <message of runCommand's error>"
ScriptFailedKeywords == {}

Returned(outputs, log) ==
    [kind |-> "ok", outputs |-> outputs, error |-> NoStepError, log |-> log]

Threw(error, log) ==
    [kind |-> "throw", outputs |-> EmptyMap, error |-> error, log |-> log]

\* the dispatches of step id that a log holds
RECURSIVE Dispatches(_, _)
Dispatches(log, id) ==
    IF log = <<>> THEN 0
    ELSE (IF Head(log).stepId = id THEN 1 ELSE 0) + Dispatches(Tail(log), id)

\* part_006:135, 161  templateEngine.render of the step's template or command
\* against the variables of the context
RenderCommand(step, variables) == RenderResult(step.command, variables, <<>>)

\* part_006:130-150  executeAIPrompt once the template is rendered: the reply
\* is a placeholder
AIPromptRendered(step, r, log) ==
    IF r.kind = "TemplateError"
    THEN Threw(StepError("TemplateError", TemplateErrorKeywords), log)
    ELSE Returned(("ai_response" :> step.id) @@ ("prompt_used" :> r.text), log)

\* part_006:125-150  executeAIPrompt
ExecuteAIPrompt(step, variables, log) ==
    AIPromptRendered(step, RenderCommand(step, variables), log)

\* part_006:163-182  executeScript once the command is rendered: it is run
ScriptRendered(step, r, log) ==
    IF r.kind = "TemplateError"
    THEN Threw(StepError("TemplateError", TemplateErrorKeywords), log)
    ELSE IF Dispatches(log, step.id) \in step.failsOn
    THEN Threw(StepError("StepExecutionError", ScriptFailedKeywords), log)
    ELSE Returned(("stdout" :> step.id) @@ ("command" :> r.text), log)

\* part_006:155-183  executeScript
ExecuteScript(step, variables, log) ==
    ScriptRendered(step, RenderCommand(step, variables), log)

\* part_006:196-210  executeValidation once the condition is evaluated
ValidationEvaluated(step, v, log) ==
    IF v = "throw"
    THEN Threw(StepError("ValidationError", InvalidConditionKeywords), log)
    ELSE IF v = "false"
    THEN Threw(StepError("ValidationError", ValidationFailedKeywords), log)
    ELSE Returned(("validated" :> TRUE) @@ ("condition" :> step.condition), log)

\* part_006:188-211  executeValidation
ExecuteValidation(step, variables, log) ==
    IF step.condition = <<>>
    THEN Threw(StepError("StepExecutionError", {"validation"}), log)
    ELSE ValidationEvaluated(step, SafeExpressionEvaluator(step.condition, variables), log)

\* a mutation of executeLoop: last is true on the iteration after the last
IterationVariablesLastLate(variables, items, i) ==
    Merge(variables, ("item" :> items[i + 1]) @@ ("index" :> i)
                     @@ ("first" :> (i = 0)) @@ ("last" :> (i = Len(items))))

\* part_006:236-245  the variables of iteration i (from zero) of a loop
IterationVariables(variables, items, i) ==
    Merge(variables, ("item" :> items[i + 1]) @@ ("index" :> i)
                     @@ ("first" :> (i = 0)) @@ ("last" :> (i = Len(items) - 1)))

\* a mutation of executeConditional: the outputs key is always set
ConditionalOutputsAlways(condition, shouldExecute, stepOutputs) ==
    ("condition" :> condition) @@ ("executed" :> shouldExecute)
    @@ ("outputs" :> stepOutputs)

\* part_006:285-304  the outputs of a conditional step
ConditionalOutputs(condition, shouldExecute, stepOutputs) ==
    IF shouldExecute
    THEN ("condition" :> condition) @@ ("executed" :> TRUE) @@ ("outputs" :> stepOutputs)
    ELSE ("condition" :> condition) @@ ("executed" :> FALSE)

RECURSIVE ExecuteStepByType(_, _, _)
RECURSIVE RunSubSteps(_, _, _, _, _)
RECURSIVE RunIterations(_, _, _, _, _, _)

\* a mutation of the child loop: the outputs of a child are merged into the
\* variables the next child is given
SubStepDoneOutputsVisible(steps, k, variables, acc, r) ==
    IF r.kind = "throw" THEN r
    ELSE RunSubSteps(steps, k + 1, Merge(variables, r.outputs), Merge(acc, r.outputs), r.log)

\* part_006:250-251, 293-294  after child k: its error goes up, or its outputs
\* are assigned onto the object and the next child is dispatched
SubStepDone(steps, k, variables, acc, r) ==
    IF r.kind = "throw" THEN r
    ELSE RunSubSteps(steps, k + 1, variables, Merge(acc, r.outputs), r.log)

\* part_006:249-258, 292-301  the child steps from the k-th on, each through
\* executeStepByType, their outputs assigned onto one object
RunSubSteps(steps, k, variables, acc, log) ==
    IF k > Len(steps) THEN Returned(acc, log)
    ELSE SubStepDone(steps, k, variables, acc,
                     ExecuteStepByType(steps[k], variables, log))

\* part_006:260-264  after the children of iteration i: the iteration is
\* pushed and the next one begins
IterationDone(step, items, i, variables, iterations, r) ==
    IF r.kind = "throw" THEN r
    ELSE RunIterations(step, items, i + 1, variables,
             Append(iterations, [index |-> i, item |-> items[i + 1], outputs |-> r.outputs]),
             r.log)

\* part_006:233-265  the iterations from the i-th (from zero) on
RunIterations(step, items, i, variables, iterations, log) ==
    IF i >= Len(items)
    THEN Returned(("iterations" :> iterations) @@ ("total_count" :> Len(items)), log)
    ELSE IterationDone(step, items, i, variables, iterations,
             RunSubSteps(step.steps, 1, IterationVariables(variables, items, i),
                         EmptyMap, log))

\* part_006:216-271  executeLoop
ExecuteLoop(step, variables, log) ==
    IF step.items = ""
    THEN Threw(StepError("StepExecutionError", {}), log)
    ELSE IF step.items \notin DOMAIN variables
    THEN Threw(StepError("StepExecutionError", {}), log)
    ELSE RunIterations(step, variables[step.items], 0, variables, <<>>, log)

\* part_006:303-309  the result of a conditional whose children have run
BranchDone(step, r) ==
    IF r.kind = "throw" THEN r
    ELSE Returned(ConditionalOutputs(step.condition, TRUE, r.outputs), r.log)

\* part_006:283-309  executeConditional once the condition is evaluated
ConditionalEvaluated(step, variables, v, log) ==
    IF v = "throw"
    THEN Threw(StepError("ValidationError", InvalidConditionKeywords), log)
    ELSE IF v = "false"
    THEN Returned(ConditionalOutputs(step.condition, FALSE, EmptyMap), log)
    ELSE BranchDone(step, RunSubSteps(step.steps, 1, variables, EmptyMap, log))

\* part_006:276-310  executeConditional
ExecuteConditional(step, variables, log) ==
    IF step.condition = <<>>
    THEN Threw(StepError("StepExecutionError", {}), log)
    ELSE ConditionalEvaluated(step, variables,
                              SafeExpressionEvaluator(step.condition, variables), log)

\* the entry a dispatch adds to the log: the step, the variables of the
\* context it was given, and whether the dispatch threw
LogEntry(step, variables) ==
    [stepId |-> step.id, retryPolicy |-> step.retryPolicy, variables |-> variables,
     threw |-> FALSE]

\* the result of the dispatch logged at p, with its outcome in the log
Logged(p, r) == IF r.kind = "throw" THEN [r EXCEPT !.log[p].threw = TRUE] ELSE r

\* part_006:97-119  the switch on step.type
SwitchOnType(step, variables, log) ==
    CASE step.type = "ai-prompt" -> ExecuteAIPrompt(step, variables, log)
      [] step.type = "script" -> ExecuteScript(step, variables, log)
      [] step.type = "validation" -> ExecuteValidation(step, variables, log)
      [] step.type = "loop" -> ExecuteLoop(step, variables, log)
      [] step.type = "conditional" -> ExecuteConditional(step, variables, log)
      [] OTHER -> Threw(StepError("StepExecutionError", {}), log)

\* part_006:96-120  executeStepByType(step, context)
ExecuteStepByType(step, variables, log) ==
    Logged(Len(log) + 1, SwitchOnType(step, variables, Append(log, LogEntry(step, variables))))

RECURSIVE ExecuteStep(_, _, _, _)

\* a mutation of executeStep: a failed dispatch is never retried
DispatchDoneNoRetry(step, variables, count, r) == r

\* part_006:79-90  the catch of executeStep: after a failure that shouldRetry
\* accepts, the same call with retryCount + 1; else the error goes up
DispatchDone(step, variables, count, r) ==
    IF r.kind = "throw" /\ ShouldRetry(step.retryPolicy, r.error.msg, count)
    THEN ExecuteStep(step, variables, count + 1, r.log)
    ELSE r

\* part_006:64-91  executeStep(step, context, sessionId, retryCount)
ExecuteStep(step, variables, count, log) ==
    DispatchDone(step, variables, count, ExecuteStepByType(step, variables, log))

(***************************************************************************)
(* SpecDispatch: executeStep is called on one step of a small family of    *)
(* workflows, with a context.                                              *)
(***************************************************************************)
\* the scripts "c1": with or without a retry policy, failing on no dispatch,
\* on the first, or on the second
FirstChildren ==
    { ScriptStep("c1", policy, GoodCommand, failsOn) :
        policy \in {NoPolicy, RetryOnce}, failsOn \in {{}, {1}, {2}} }

SecondChildren ==
    { AIPromptStep("c2", NoPolicy),
      ConditionalStep("c2", NoPolicy, <<"first">>, <<AIPromptStep("c3", NoPolicy)>>),
      ConditionalStep("c2", NoPolicy, <<"last">>, <<AIPromptStep("c3", NoPolicy)>>),
      LoopStep("c2", NoPolicy, "list", <<AIPromptStep("c3", NoPolicy)>>) }

ChildLists ==
    { <<>> } \cup { <<c>> : c \in FirstChildren }
    \cup { <<c, d>> : c \in FirstChildren, d \in SecondChildren }
    \cup { <<d, c>> : c \in FirstChildren, d \in SecondChildren }

ParentPolicies == {NoPolicy, RetryOnce}

DispatchConditions == { <<"a">>, <<"!", "a">> }

LeafSteps ==
    { ValidationStep("s", policy, condition) :
        policy \in {NoPolicy, RetryOnce, RetryOnTimeout, RetryOnValidation},
        condition \in DispatchConditions }
    \cup { ScriptStep("s", policy, command, {}) :
             policy \in {NoPolicy, RetryOnce, RetryOnTimeout, RetryOnTemporary},
             command \in {GoodCommand, BadCommand} }

DispatchSteps ==
    { LoopStep("s", policy, "list", steps) :
        policy \in ParentPolicies, steps \in ChildLists }
    \cup { ConditionalStep("s", policy, condition, steps) :
             policy \in ParentPolicies, condition \in DispatchConditions,
             steps \in ChildLists }
    \cup LeafSteps

DispatchVariables ==
    { ("a" :> flag) @@ ("list" :> SubSeq(ItemPool, 1, n)) :
        flag \in BOOLEAN, n \in 0..MaxItems }

InitDispatch == InitStore /\ ExecutorIdle /\ EngineIdle

DispatchCall ==
    /\ call = NoCall
    /\ \E step \in DispatchSteps, variables \in DispatchVariables :
          /\ call' = [fn |-> "executeStep", step |-> step, variables |-> variables]
          /\ ret' = ExecuteStep(step, variables, 0, <<>>)
    /\ UNCHANGED <<xpolicy, xpc, retryCount, attempts, sleeps, lastFail, thrown, pattern,
                   compiledCache>>
    /\ UNCHANGED <<svars, evars>>

NextDispatch == DispatchCall

SpecDispatch == InitDispatch /\ [][NextDispatch]_vars

(***************************************************************************)
(* SpecTruthy: one value is used as the condition of a template            *)
(* conditional and as a condition of the expression evaluator.             *)
(***************************************************************************)
\* longest string and longest array among the values
MaxValueLen == 2

\* the values that are not arrays: false, true, null, undefined, {}, numbers
\* (0 among them) and strings ('' and '0' among them)
ScalarValues ==
    {Bool(FALSE), Bool(TRUE), Null, Undefined, Obj}
    \cup { Num(n) : n \in {0 - 1, 0, 1, 5} }
    \cup { Str(chars) : chars \in UNION { [1..k -> {"0", "v"}] : k \in 0..MaxValueLen } }

TruthValues ==
    ScalarValues
    \cup { Arr(items) : items \in UNION { [1..k -> ScalarValues] : k \in 0..MaxValueLen } }

\* part_006:483-495  resolveValue(path, variables) for a path of one key
ResolveValue(path, variables) ==
    IF path \in DOMAIN variables THEN variables[path] ELSE Undefined

\* Boolean(value) of JavaScript: false, 0, '', null and undefined are false,
\* every object is true, the empty array included
BooleanOf(value) ==
    CASE value.t \in {"null", "undefined"} -> FALSE
      [] value.t = "boolean" -> value.b
      [] value.t = "number" -> value.n # 0
      [] value.t = "string" -> value.s # <<>>
      [] value.t \in {"array", "object"} -> TRUE

\* part_006:423-426, 447-449  safeExpressionEvaluator of an expression that
\* is one variable name: Boolean(resolveValue(name, variables))
EvaluateSingleValue(name, variables) == BooleanOf(ResolveValue(name, variables))

\* the template "${if v}t${endif}"
IfVTemplate == <<Expr(<<"if", "v">>), Text(<<"t">>), Expr(<<"endif">>)>>

InitTruthy == InitStore /\ ExecutorIdle /\ EngineIdle

\* render("${if v}t${endif}", {v: value}) and safeExpressionEvaluator("v",
\* {v: value}) on one value
TruthyCall ==
    /\ call = NoCall
    /\ \E value \in TruthValues :
          /\ call' = [fn |-> "truthiness", value |-> value]
          /\ ret' = [rendered |-> RenderResult(IfVTemplate, ("v" :> value), <<>>),
                     evaluated |-> EvaluateSingleValue("v", ("v" :> value))]
    /\ UNCHANGED <<xpolicy, xpc, retryCount, attempts, sleeps, lastFail, thrown, pattern,
                   compiledCache>>
    /\ UNCHANGED <<svars, evars>>

NextTruthy == TruthyCall

SpecTruthy == InitTruthy /\ [][NextTruthy]_vars

C2_RetryCondition ==
    LET cond == /\ xpolicy.has
                /\ lastFail.k < xpolicy.maxAttempts
                /\ (~xpolicy.hasRetryOn \/ ClassifyError(lastFail.msg) \in xpolicy.retryOn)
    IN  /\ (xpc = "sleep" => cond /\ Len(sleeps) = lastFail.k + 1
                                  /\ attempts = lastFail.k + 1)
        /\ (xpc = "thrown" => ~cond /\ Len(sleeps) = lastFail.k
                                    /\ attempts = lastFail.k + 1)

C2_Witness ==
    /\ xpc = "thrown" /\ xpolicy.has /\ xpolicy.hasRetryOn
    /\ lastFail.k = 1 /\ lastFail.k < xpolicy.maxAttempts
    /\ ClassifyError(lastFail.msg) \notin xpolicy.retryOn

(***************************************************************************)
(* Claims about the State Manager, checked under SpecSM.                   *)
(***************************************************************************)
CopiesOf(id) == {p \in Statuses : final[id][p].kind # "none"}

HasValidFile(fin, id) == \E p \in Statuses : fin[id][p].kind = "json"

(***************************************************************************)
(* C7: whenever no State Manager operation is in progress (and no process  *)
(* died inside one), every sessionId has a session file in at most one of  *)
(* the four partitions, whether or not filesystem calls failed.            *)
(***************************************************************************)
C7_OneCopyPerSession ==
    (cfr.op = "idle" /\ crashes = 0)
        => \A id \in SessionIds : Cardinality(CopiesOf(id)) <= 1

(***************************************************************************)
(* C8: when updateSessionStatus(id, s) returns without error for a session *)
(* it loaded in status r # s, loadSession(id) with no status hint returns  *)
(* a record of status s and partition r holds no file for id.              *)
(***************************************************************************)
C8_StatusMoveExclusive ==
    (cfr.op = "updateSessionStatus" /\ cfr.pc = "done"
        /\ cfr.loaded.status # cfr.newStatus)
        => /\ LoadSession(final, cfr.id).status = cfr.newStatus
           /\ final[cfr.id][cfr.loaded.status] = NoFile

(***************************************************************************)
(* C9: no step of createSession, saveSession, loadSession,                 *)
(* updateSessionStatus, updateContext or addStepExecution, failing or not, *)
(* takes away the last valid file of a session: only deleteSession does.   *)
(* It holds step by step, so a crash between any two filesystem calls      *)
(* leaves a valid file too.                                                *)
(***************************************************************************)
C9_NoLostSession ==
    [][\A id \in SessionIds :
          (HasValidFile(final, id) /\ ~HasValidFile(final', id))
              => cfr.op = "deleteSession"]_vars

\* a process died between the save to the new partition and the unlink of
\* the old file: the session is left with two valid copies
C9_Witness ==
    /\ crashes = 1 /\ faults = 0 /\ cfr.op = "idle" /\ calls = 2
    /\ final["s1"]["running"].kind = "json"
    /\ final["s1"]["completed"].kind = "json"

(***************************************************************************)
(* C10: when saveSession fails in its write or its rename, the final file  *)
(* of the session in the target partition is as it was before the call,    *)
(* the error raised is a state error tagged write, and the temp file is    *)
(* gone whenever its best-effort unlink went through.                      *)
(***************************************************************************)
C10_FailedSaveLeavesFinal ==
    (cfr.pc = "error" /\ cfr.inSave)
        => LET p == cfr.state.status
           IN  /\ final[cfr.id][p] = snap[cfr.id][p]
               /\ cfr.tag = "write"
               /\ (cfr.tmpCleaned => temp[cfr.id][p] = NoFile)

\* a saveSession (called directly or by addStepExecution, updateContext,
\* updateSessionStatus) failed over an existing file with different content
C10_Witness ==
    /\ cfr.op # "idle" /\ cfr.pc = "error" /\ cfr.inSave /\ cfr.tmpCleaned
    /\ snap[cfr.id][cfr.state.status].kind = "json"
    /\ cfr.state # snap[cfr.id][cfr.state.status]
    /\ final[cfr.id][cfr.state.status] = snap[cfr.id][cfr.state.status]

(***************************************************************************)
(* The Workflow Engine's claims, checked under SpecEngineSeq.              *)
(***************************************************************************)
\* the status of the session as loadSession reports it
PersistedStatus == LoadSession(final, EId).status

\* the records of a run in which steps 1..n returned
SuccessRecords(n) ==
    [i \in 1..n |-> [stepId |-> i, status |-> "success",
                     outputs |-> ("stdout" :> i), error |-> <<>>]]

\* the records of a run in which steps 1..n-1 returned and step n threw msg
RecordsUpToFailure(n, msg) ==
    [i \in 1..n |-> IF i < n
                    THEN [stepId |-> i, status |-> "success",
                          outputs |-> ("stdout" :> i), error |-> <<>>]
                    ELSE [stepId |-> i, status |-> "failed",
                          outputs |-> EmptyMap, error |-> <<msg>>]]

C4_AllStepsSucceed ==
    /\ (epc = "thrown" /\ thrownStep = 0 => faults > 0)
    /\ (epc = "returned" /\ calls = 0) =>
          LET s == final[EId]["completed"]
          IN  /\ thrownStep = 0
              /\ s.kind = "json"
              /\ s.status = "completed"
              /\ s.stepExecutions = SuccessRecords(Len(workflow))
              /\ s.currentStepIndex = Len(workflow)
              /\ (faults = 0 => LoadSession(final, EId) = s)

\* execute returned for a workflow of MaxSteps steps whose last step was retried
C4_Witness ==
    /\ epc = "returned"
    /\ calls = 0
    /\ Len(workflow) = MaxSteps
    /\ attempts = 2
    /\ faults = 0

\* C5: after a step threw out of executeStep no later step is started; and when
\* execute has thrown and no filesystem call failed, the session is persisted
\* with status failed and its records are the successes of the earlier steps
\* followed by one failed record with the error's message and empty outputs.
C5_FailureAborts ==
    /\ thrownStep > 0 =>
          \A i \in DOMAIN events :
              events[i].type = "stepStarted" => events[i].step <= thrownStep
    /\ (thrownStep > 0 /\ epc = "thrown" /\ faults = 0) =>
          LET s == LoadSession(final, EId)
          IN  /\ s.status = "failed"
              /\ s = final[EId]["failed"]
              /\ s.stepExecutions = RecordsUpToFailure(thrownStep, lastFail.msg)
              /\ CopiesOf(EId) = {"failed"}

\* the first of MaxSteps steps exhausted its retries and execute threw
C5_Witness ==
    /\ thrownStep = 1
    /\ Len(workflow) = MaxSteps
    /\ epc = "thrown"
    /\ faults = 0
    /\ attempts = 2
    /\ PersistedStatus = "failed"

C11_IndexIsRecordCount ==
    \A id \in SessionIds : \A p \in Statuses :
        final[id][p].kind = "json"
            => final[id][p].currentStepIndex = Len(final[id][p].stepExecutions)

\* a record was appended and the session then moved to another partition
C11_Witness ==
    /\ cfr.op = "idle"
    /\ calls = 3
    /\ final["s1"]["completed"].kind = "json"
    /\ Len(final["s1"]["completed"].stepExecutions) = 1
    /\ final["s1"]["completed"].currentStepIndex = 1

(***************************************************************************)
(* Further claims about the Workflow Engine, checked under SpecEngineSeq.  *)
(***************************************************************************)
\* C12: whenever execute hands its context to a step, the persisted session's
\* context equals that context: the outputs of every earlier step have been
\* merged into the persisted context.variables.
C12_PersistedContextFollows ==
    epc = "executeStep" => LoadSession(final, EId).context = mem.context

\* C13: while pause loads the session nothing is emitted or written; when the
\* load fails (missing session) or the loaded status is not running, pause ends
\* there with an error; and a paused event is emitted only by a pause that
\* loaded status running and has put the session into the paused partition.
C13_PauseOnlyWhenRunning ==
    [][/\ (cop = "pause" /\ cpc = "loadSession") =>
              /\ events' = events
              /\ final' = final
              /\ (Finished(cfr) /\ ~(cfr.pc = "done" /\ cfr.loaded.status = "running"))
                    => (cop' = "idle" /\ cresult' = [op |-> "pause", result |-> "thrown"])
       /\ (events' # events /\ events'[Len(events')].type = "paused") =>
              /\ cop = "pause"
              /\ cstate.status = "running"
              /\ cresult' = [op |-> "pause", result |-> "ok"]
              /\ final[EId]["paused"].kind = "json"
              /\ final[EId]["paused"].status = "paused"
              /\ (faults = 0 => LoadSession(final, EId).status = "paused")
      ]_vars

\* a pause succeeded on the running session and a second pause was rejected
C13_Witness ==
    /\ calls = 2
    /\ cop = "idle"
    /\ cresult = [op |-> "pause", result |-> "thrown"]
    /\ PersistedStatus = "paused"
    /\ \E i \in DOMAIN events : events[i].type = "paused"
    /\ faults = 0

\* C14: resume writes nothing before it has loaded the session; when the load
\* fails (missing session) or the loaded status is not paused, resume ends there
\* with an error, having emitted nothing.
C14_ResumeOnlyWhenPaused ==
    [][(cop = "resume" /\ cpc \in {"initialize", "loadSession"}) =>
          /\ final' = final
          /\ (cpc = "initialize" => events' = events)
          /\ (cpc = "loadSession" /\ Finished(cfr)
                /\ ~(cfr.pc = "done" /\ cfr.loaded.status = "paused"))
                => /\ events' = events
                   /\ cop' = "idle"
                   /\ cresult' = [op |-> "resume", result |-> "thrown"]
          /\ (cpc = "loadSession" /\ ~Finished(cfr)) => events' = events
      ]_vars

\* a resume of the running session (its execute process died) was rejected
C14_Witness ==
    /\ epc = "crashed"
    /\ cop = "idle"
    /\ cresult = [op |-> "resume", result |-> "thrown"]
    /\ PersistedStatus = "running"
    /\ events = <<[type |-> "started", step |-> 0]>>
    /\ faults = 0

\* the positions of the events of one type
EventsOfType(t) == {i \in DOMAIN events : events[i].type = t}

\* C15: the events of an execute run (before any other engine call) are: started
\* first; per step, in workflow order, stepStarted followed by exactly one of
\* stepCompleted / stepFailed, a step starting only after the previous step
\* completed and its record was persisted; and, once execute has ended, exactly
\* one final event, completed if every step emitted stepCompleted and failed
\* otherwise.
C15_EventOrder ==
    calls = 0 =>
        /\ \A i \in DOMAIN events :
              /\ (events[i].type = "started") = (i = 1)
              /\ events[i].type = "stepStarted" =>
                    /\ IF events[i].step = 1 THEN i = 2
                       ELSE events[i - 1] = [type |-> "stepCompleted",
                                             step |-> events[i].step - 1]
                    /\ Len(LoadSession(final, EId).stepExecutions) >= events[i].step - 1
              /\ events[i].type \in {"stepCompleted", "stepFailed"} =>
                    events[i - 1] = [type |-> "stepStarted", step |-> events[i].step]
              /\ events[i].type \in {"completed", "failed"} => i = Len(events)
              /\ events[i].type = "completed" =>
                    Cardinality(EventsOfType("stepCompleted")) = Len(workflow)
              /\ events[i].type = "failed" =>
                    Cardinality(EventsOfType("stepCompleted")) < Len(workflow)
        /\ epc \in {"returned", "thrown"} =>
              /\ events # <<>>
              /\ events[Len(events)].type \in {"completed", "failed"}
              /\ \A i \in EventsOfType("stepStarted") :
                    i < Len(events) /\ events[i + 1].type \in {"stepCompleted", "stepFailed"}

\* C16: whenever execute has thrown, whatever call failed, the session is
\* persisted as failed, exactly one failed event was emitted, and the error
\* raised is the workflow error.
C16_EveryFailureMarksFailed ==
    (epc = "thrown" /\ calls = 0) =>
        /\ PersistedStatus = "failed"
        /\ Cardinality(EventsOfType("failed")) = 1
        /\ Raised = "WorkflowError"

(***************************************************************************)
(* Further claims about the Step Executor, checked under SpecRetry.        *)
(***************************************************************************)
\* C17: the delay slept after the failed attempt with retry count k is
\* backoffMs * 2^k for every policy that has a backoffMs field, 0 included, and
\* 1000 * 2^k only for a policy without the field.
C17_BackoffDelay ==
    \A i \in DOMAIN sleeps :
        sleeps[i] = (IF xpolicy.hasBackoff THEN xpolicy.backoffMs ELSE 1000)
                        * Pow2(i - 1)

\* the patterns in the order classifyError is to test them, with their keywords
PatternOrder ==
    <<"timeout", "network_error", "rate_limit", "server_error",
      "authentication_error", "validation_error", "resource_unavailable">>

PatternKeywords ==
    [timeout |-> {"timeout"}, network_error |-> {"network", "connection"},
     rate_limit |-> {"rate limit"}, server_error |-> {"server error", "500"},
     authentication_error |-> {"auth"}, validation_error |-> {"validation"},
     resource_unavailable |-> {"unavailable", "busy"}]

\* the positions in PatternOrder of the patterns with a keyword that occurs,
\* case-insensitively, in the message of the value classified
MatchingPatterns ==
    {i \in DOMAIN PatternOrder :
        \E k \in PatternKeywords[PatternOrder[i]] :
            Includes(ToLowerCase(thrown.text), KeywordChars[k])}

\* C18: classifyError returns the first pattern of the fixed order one of whose
\* keywords occurs, case-insensitively, in the message, and temporary_failure
\* when none occurs (or there is no error); a message with both "timeout" and
\* "connection" gives timeout; the kind of value thrown makes no difference.
C18_FirstPatternWins ==
    pattern # "none" =>
        /\ pattern = IF MatchingPatterns = {} THEN "temporary_failure"
                     ELSE PatternOrder[CHOOSE i \in MatchingPatterns :
                                          \A j \in MatchingPatterns : i <= j]
        /\ ({1, 2} \subseteq MatchingPatterns => pattern = "timeout")

\* an Error whose message is "CONNECTIONTimeout" was classified
C18_Witness ==
    /\ thrown.kind = "Error"
    /\ thrown.text = <<"C", "O", "N", "N", "E", "C", "T", "I", "O", "N",
                       "T", "i", "m", "e", "o", "u", "t">>
    /\ pattern = "timeout"

Range(seq) == {seq[i] : i \in DOMAIN seq}

\* the session ids a cleanup call tried to delete: those it deleted and those
\* whose deleteSession threw
AttemptedIds(c) ==
    Range(c.deleted) \cup {e.key : e \in {x \in Range(c.errors) : x.kind = "session"}}

\* the sessions of the disk fin that have, in one of the partitions ps, a
\* readable file last updated before cutoff
OldSessions(fin, ps, cutoff) ==
    {id \in SessionIds :
        \E p \in ps : fin[id][p].kind = "json" /\ fin[id][p].updatedAt < cutoff}

\* C20: while a dry-run cleanupSessions call runs and when it has returned,
\* every session file is where and what it was when the call began; and the
\* ids a returned call reports in deleted (dry run) or tried to delete (real
\* run) are, whatever dryRun is, the sessions that had a file older than the
\* cutoff in a partition the call listed: a dry run previews exactly the ids
\* the real run attempts, and reports no session error.
C20_DryRunIsPreview ==
    /\ (cln.pc # "idle" /\ cln.dryRun) => (final = snap /\ cfr.op = "idle")
    /\ cln.pc = "returned" =>
          /\ AttemptedIds(cln) = OldSessions(snap, cln.listed, cln.cutoff)
          /\ cln.dryRun =>
                /\ Range(cln.deleted) = OldSessions(snap, cln.listed, cln.cutoff)
                /\ \A e \in Range(cln.errors) : e.kind = "status"

\* a dry run over a session older than the cutoff has returned it in deleted,
\* and the session's file is still in its partition
C20_Witness ==
    /\ cln.pc = "returned"
    /\ cln.dryRun
    /\ cln.deleted # <<>>
    /\ \E id \in Range(cln.deleted), p \in Range(cln.statuses) :
          final[id][p].kind = "json" /\ final[id][p].updatedAt < cln.cutoff


(***************************************************************************)
(* C21: what cleanupSessions removes.                                      *)
(***************************************************************************)
\* C21: a step of a cleanupSessions call changes a session file only by
\* removing it, and only a file that lies in one of the requested partitions
\* and was last updated before the cutoff now - maxAge.
C21_DeletesOnlyRequestedOld ==
    [][(cln.pc # "idle") =>
          (\A id \in SessionIds, p \in Statuses :
              (final'[id][p] # final[id][p]) =>
                  (/\ final'[id][p] = NoFile
                   /\ p \in Range(cln.statuses)
                   /\ final[id][p].updatedAt < cln.cutoff))]_vars


(***************************************************************************)
(* C27: resume of a paused session.                                        *)
(***************************************************************************)
\* C27: when the status update that resume makes after emitting resumed ends,
\* it has succeeded, the session is persisted as failed (not running, not
\* paused), the failed event follows the resumed event, and resume throws.
C27_ResumeEndsFailed ==
    [][(cop = "resume" /\ cpc = "updateSessionStatus" /\ Finished(cfr)) =>
          (/\ cfr.pc = "done"
           /\ PersistedStatus = "failed"
           /\ events[Len(events)].type = "resumed"
           /\ events' = Append(events, [type |-> "failed", step |-> 0])
           /\ cresult' = [op |-> "resume", result |-> "thrown"])]_vars


(***************************************************************************)
(* C28: the persisted list of step records.                                *)
(***************************************************************************)
\* a is a prefix of b
IsPrefix(a, b) == Len(a) <= Len(b) /\ \A i \in DOMAIN a : a[i] = b[i]

\* C28: in every step of a State Manager call, if loadSession reports the
\* session before and after the step, the stepExecutions it reports before is
\* a prefix of the list it reports after: records are appended at the end and
\* a record once persisted is neither changed nor removed.
C28_RecordsOnlyAppended ==
    [][\A id \in SessionIds :
          (LoadSession(final, id).kind = "json" /\ LoadSession(final', id).kind = "json")
             => IsPrefix(LoadSession(final, id).stepExecutions,
                         LoadSession(final', id).stepExecutions)]_vars


(***************************************************************************)
(* C29: the logical operators of the expression evaluator.                 *)
(***************************************************************************)
\* the result of the k-th part of the expression split on op
PartResult(expr, op, k, variables) ==
    SafeExpressionEvaluator(SplitOn(expr, op)[k], variables)

\* C29: an expression that contains && is split on && (whatever else it
\* contains, so 'a || b && c' is (a || b) && c) and is true exactly when
\* every part is true: its parts are evaluated left to right up to the first
\* that is not true, whose result (false, or the error of a part that cannot
\* be evaluated) is the result.  An expression with || and no && is split on ||
\* and is true exactly when some part is true and the parts before it are
\* false: the parts are evaluated up to the first that is not false.
C29_AndBeforeOr ==
    call.fn = "safeExpressionEvaluator" =>
        LET expr == call.expression
            variables == call.variables
            first(op, skip) ==
                {k \in DOMAIN SplitOn(expr, op) :
                    /\ PartResult(expr, op, k, variables) # skip
                    /\ \A j \in 1..(k - 1) : PartResult(expr, op, j, variables) = skip}
        IN  IF Contains(expr, "&&")
            THEN /\ (ret.kind = "true") =
                        (\A k \in DOMAIN SplitOn(expr, "&&") :
                            PartResult(expr, "&&", k, variables) = "true")
                 /\ \A k \in first("&&", "true") :
                        ret.kind = PartResult(expr, "&&", k, variables)
            ELSE IF Contains(expr, "||")
            THEN /\ (ret.kind = "true") =
                        (\E k \in DOMAIN SplitOn(expr, "||") :
                            /\ PartResult(expr, "||", k, variables) = "true"
                            /\ \A j \in 1..(k - 1) :
                                  PartResult(expr, "||", j, variables) = "false")
                 /\ \A k \in first("||", "false") :
                        ret.kind = PartResult(expr, "||", k, variables)
            ELSE TRUE

\* 'a || b && c' with a true and c false was evaluated: false, where
\* a || (b && c) would be true
C29_Witness ==
    /\ call.fn = "safeExpressionEvaluator"
    /\ call.expression = <<"a", "||", "b", "&&", "c">>
    /\ call.variables["a"] /\ ~call.variables["c"]
    /\ ret.kind = "false"


(***************************************************************************)
(* C24: the compiled-AST cache of the template engine.                     *)
(***************************************************************************)
\* C24: whatever render, validate and clearCache calls came before on the
\* same engine, render(T, C) returns the text, or throws the template error,
\* that compiling T anew and evaluating it against C gives.
C24_CacheIsTransparent ==
    call.fn = "render" =>
        LET c == Compile(call.template)
        IN  IF c.error # "none"
            THEN ret = [kind |-> "TemplateError", message |-> c.error, text |-> <<>>]
            ELSE ret = [kind |-> "returned", message |-> "none",
                        text |-> Evaluate(c.ast, call.context)]

\* "t${x}" was rendered from the cached AST, against the context with x = "w"
C24_Witness ==
    /\ call.fn = "render"
    /\ call.cached
    /\ call.template = <<Text(<<"t">>), Expr(<<"x">>)>>
    /\ ret.kind = "returned"
    /\ ret.text = <<"t", "w">>

(***************************************************************************)
(* C30: block nesting in templates.                                        *)
(***************************************************************************)
\* the if/endif and foreach/endforeach tokens are properly nested: every
\* terminator closes the innermost open block, which is of its own kind, and
\* no block is left open
RECURSIVE NestedFrom(_, _, _)
NestedFrom(tokens, i, open) ==
    IF i > Len(tokens) THEN open = <<>>
    ELSE CASE tokens[i].type = "IF_START" -> NestedFrom(tokens, i + 1, <<"if">> \o open)
           [] tokens[i].type = "FOREACH_START" ->
                 NestedFrom(tokens, i + 1, <<"foreach">> \o open)
           [] tokens[i].type = "IF_END" ->
                 open # <<>> /\ Head(open) = "if" /\ NestedFrom(tokens, i + 1, Tail(open))
           [] tokens[i].type = "FOREACH_END" ->
                 open # <<>> /\ Head(open) = "foreach"
                    /\ NestedFrom(tokens, i + 1, Tail(open))
           [] OTHER -> NestedFrom(tokens, i + 1, open)

ProperlyNested(template) == NestedFrom(Tokenize(template).tokens, 1, <<>>)

\* every ${ of the template is closed, every filter is a built-in one and
\* every foreach header reads "item in collection"
ExpressionsWellFormed(template) ==
    LET t == Tokenize(template)
    IN  /\ t.error = "none"
        /\ \A i \in DOMAIN t.tokens :
              /\ t.tokens[i].type = "VARIABLE" =>
                    \A k \in DOMAIN t.tokens[i].value :
                        (k > 1 /\ t.tokens[i].value[k - 1] = "|")
                            => t.tokens[i].value[k] \in FILTERS
              /\ t.tokens[i].type = "VARIABLE" =>
                    t.tokens[i].value[Len(t.tokens[i].value)] # "|"
              /\ t.tokens[i].type = "FOREACH_START" =>
                    (Len(t.tokens[i].value) >= 3 /\ t.tokens[i].value[2] = "in")

\* render returned or validate answered valid
ParseSucceeded == ret.kind \in {"returned", "valid"}

LastRun(log, id) ==
    LET last == CHOOSE p \in 1..Len(log) :
                    /\ log[p].stepId = id
                    /\ \A q \in (p + 1)..Len(log) : log[q].stepId # id
    IN  SubSeq(log, last + 1, Len(log))

\* the dispatches of the children of step in its last attempt, in order
ChildDispatches(step, log) ==
    LET IsChild(e) == \E k \in 1..Len(step.steps) : step.steps[k].id = e.stepId
    IN  SelectSeq(LastRun(log, step.id), IsChild)

SomeDispatchThrew(log, step) ==
    \E p \in 1..Len(log) : log[p].threw /\ log[p].stepId # step.id

\* C22: a loop step over an array of n items dispatches its children once
\* per item, in index order and in child order, each dispatch seeing item,
\* index, first (index = 0) and last (index = n - 1) on top of the variables
\* of the loop's context; its result has total_count = n and n iterations in
\* index order; an empty array gives zero iterations and no error; the loop
\* only throws when a dispatch below it threw.
C22_LoopIterates ==
    (call.fn = "executeStep" /\ call.step.type = "loop") =>
        LET items == call.variables.list
            n == Len(items)
            children == call.step.steps
            m == Len(children)
            seen == ChildDispatches(call.step, ret.log)
        IN  /\ ret.kind = "ok" =>
                /\ Len(seen) = n * m
                /\ \A i \in 0..(n - 1), k \in 1..m :
                      LET e == seen[i * m + k]
                      IN  /\ e.stepId = children[k].id
                          /\ e.variables.item = items[i + 1]
                          /\ e.variables.index = i
                          /\ e.variables.first = (i = 0)
                          /\ e.variables.last = (i = n - 1)
                          /\ e.variables.a = call.variables.a
                          /\ e.variables.list = items
                /\ ret.outputs.total_count = n
                /\ Len(ret.outputs.iterations) = n
                /\ \A i \in 0..(n - 1) :
                      /\ ret.outputs.iterations[i + 1].index = i
                      /\ ret.outputs.iterations[i + 1].item = items[i + 1]
            /\ n = 0 => (ret.kind = "ok" /\ ret.outputs.iterations = <<>> /\ Len(ret.log) = 1)
            /\ ret.kind = "throw" => SomeDispatchThrew(ret.log, call.step)

\* a loop over three items with two children has returned
C22_Witness ==
    /\ call.fn = "executeStep"
    /\ call.step.type = "loop"
    /\ Len(call.variables.list) = 3
    /\ Len(call.step.steps) = 2
    /\ ret.kind = "ok"
    /\ Len(ChildDispatches(call.step, ret.log)) = 6

\* the value of the conditions "a" and "!a" under the variables
ConditionHolds(condition, variables) ==
    IF condition = <<"a">> THEN variables.a ELSE ~variables.a

\* the keys of the outputs of a child of a top-level conditional
OutputKeys(child) ==
    CASE child.type = "script" -> {"stdout", "command"}
      [] child.type = "ai-prompt" -> {"ai_response", "prompt_used"}
      [] child.type = "loop" -> {"iterations", "total_count"}
      [] OTHER -> {"condition", "executed"}

\* C23: a conditional step whose condition is false returns executed = false
\* with no outputs key and dispatches no child; one whose condition is true
\* dispatches its children in order, each with the variables of its own
\* context, and returns executed = true with the children's outputs merged
\* under the outputs key; it only throws when a child threw.
C23_ConditionalBranches ==
    (call.fn = "executeStep" /\ call.step.type = "conditional") =>
        LET children == call.step.steps
            seen == ChildDispatches(call.step, ret.log)
        IN  IF ~ConditionHolds(call.step.condition, call.variables)
            THEN /\ ret.kind = "ok"
                 /\ ret.outputs.executed = FALSE
                 /\ DOMAIN ret.outputs = {"condition", "executed"}
                 /\ Len(ret.log) = 1
            ELSE /\ ret.kind = "ok" =>
                     /\ ret.outputs.executed = TRUE
                     /\ Len(seen) = Len(children)
                     /\ \A k \in 1..Len(children) :
                           /\ seen[k].stepId = children[k].id
                           /\ seen[k].variables = call.variables
                     /\ DOMAIN ret.outputs = {"condition", "executed", "outputs"}
                     /\ DOMAIN ret.outputs.outputs =
                           UNION { OutputKeys(children[k]) : k \in 1..Len(children) }
                     /\ \A k \in 1..Len(children) :
                           /\ children[k].type = "script" =>
                                 ret.outputs.outputs.stdout = children[k].id
                           /\ children[k].type = "ai-prompt" =>
                                 ret.outputs.outputs.ai_response = children[k].id
                 /\ ret.kind = "throw" => SomeDispatchThrew(ret.log, call.step)

\* a conditional with two children whose condition is false has returned
C23_Witness ==
    /\ call.fn = "executeStep"
    /\ call.step.type = "conditional"
    /\ Len(call.step.steps) = 2
    /\ ~ConditionHolds(call.step.condition, call.variables)
    /\ ret.kind = "ok"

\* C25: the retry policy applies to the dispatch of a child step: when the
\* first dispatch of a child fails and the child's own retryPolicy allows a
\* retry, the child is dispatched again, with the same variables, before
\* anything else is dispatched.
C25_ChildRetried ==
    call.fn = "executeStep" =>
        \A p \in 1..Len(ret.log) :
            LET e == ret.log[p]
            IN  (/\ e.stepId # call.step.id
                 /\ e.threw
                 /\ Dispatches(SubSeq(ret.log, 1, p), e.stepId) = 1
                 /\ e.retryPolicy.has
                 /\ ~e.retryPolicy.hasRetryOn
                 /\ e.retryPolicy.maxAttempts >= 1)
                => (/\ p < Len(ret.log)
                    /\ ret.log[p + 1].stepId = e.stepId
                    /\ ret.log[p + 1].variables = e.variables)

\* C26: a validation step whose condition fails is dispatched again only
\* when its retryPolicy lists validation_error in retryOn, and a step whose
\* command raises a template error is dispatched once, whatever its policy.
C26_RetriedOnlyWhenListed ==
    call.fn = "executeStep" =>
        /\ (call.step.type = "validation" /\ Len(ret.log) > 1) =>
              (call.step.retryPolicy.hasRetryOn
               /\ "validation_error" \in call.step.retryPolicy.retryOn)
        /\ (ret.kind = "throw" /\ ret.error.name = "TemplateError") => Len(ret.log) = 1

FirstAttemptEnd(log, id) ==
    IF \E q \in 2..Len(log) : log[q].stepId = id
    THEN (CHOOSE q \in 2..Len(log) :
              log[q].stepId = id /\ \A j \in 2..(q - 1) : log[j].stepId # id) - 1
    ELSE Len(log)

\* C38: when the first attempt of a loop step whose retryPolicy accepts any
\* error fails in a child during iteration k > 0, the loop is dispatched
\* again with the same variables and runs from iteration 0: every child
\* dispatch of the failed attempt is made again, in the same order and
\* with the same variables; the result of the retry holds one entry per
\* item, none of them from the failed attempt.
C38_RetryRerunsWholeLoop ==
    (/\ call.fn = "executeStep"
     /\ call.step.type = "loop"
     /\ call.step.retryPolicy.has
     /\ ~call.step.retryPolicy.hasRetryOn
     /\ call.step.retryPolicy.maxAttempts >= 1) =>
        LET log == ret.log
            p == FirstAttemptEnd(log, call.step.id)
            n == Len(call.variables.list)
        IN  (/\ p >= 2
             /\ log[p].threw
             /\ log[p].variables.index > 0) =>
                /\ Len(log) >= 2 * p
                /\ log[p + 1].stepId = call.step.id
                /\ log[p + 1].variables = call.variables
                /\ \A j \in 2..p :
                      /\ log[p + j].stepId = log[j].stepId
                      /\ log[p + j].variables = log[j].variables
                /\ log[p + 2].variables.index = 0
                /\ ret.kind = "ok" =>
                      /\ Len(ret.outputs.iterations) = n
                      /\ ret.outputs.total_count = n
                      /\ \A i \in 1..n : ret.outputs.iterations[i].index = i - 1

\* a loop whose child failed in iteration 1 was retried and has returned
C38_Witness ==
    /\ call.fn = "executeStep"
    /\ call.step.type = "loop"
    /\ call.step.retryPolicy.has
    /\ ret.kind = "ok"
    /\ LET p == FirstAttemptEnd(ret.log, call.step.id)
       IN  /\ p >= 2
           /\ ret.log[p].threw
           /\ ret.log[p].variables.index = 1
           /\ Len(ret.log) > p

(***************************************************************************)
(* C36: the context a step is executed with.                               *)
(***************************************************************************)
LoopKeys == {"item", "index", "first", "last"}

\* the called step and the steps below it
StepsBelow(step) ==
    {step} \cup { step.steps[k] : k \in 1..Len(step.steps) }
    \cup UNION { { step.steps[k].steps[j] : j \in 1..Len(step.steps[k].steps) } :
                   k \in 1..Len(step.steps) }

\* the dispatch that dispatched the one logged at p: the last one before p
\* of the step that has the step of p among its children (0 for a dispatch
\* of the called step)
ParentDispatch(log, p, top) ==
    LET IsParent(q) ==
            \E parent \in StepsBelow(top) :
                /\ parent.id = log[q].stepId
                /\ \E k \in 1..Len(parent.steps) : parent.steps[k].id = log[p].stepId
    IN  IF \E q \in 1..(p - 1) : IsParent(q)
        THEN CHOOSE q \in 1..(p - 1) :
                 IsParent(q) /\ \A j \in (q + 1)..(p - 1) : ~IsParent(j)
        ELSE 0

TypeOf(top, id) == (CHOOSE step \in StepsBelow(top) : step.id = id).type

\* C36: executeStep leaves the variables of the context it is given as they
\* are.  Every dispatch of the called step, the retries included, sees the
\* variables of the call; a child of a conditional sees exactly the
\* variables the conditional saw, whatever its earlier children returned
\* and whatever loops ran before it; a child of a loop sees the variables
\* the loop saw, with item, index, first and last of the iteration set and
\* nothing else added or changed.
C36_ContextUntouched ==
    call.fn = "executeStep" =>
        \A p \in 1..Len(ret.log) :
            LET e == ret.log[p]
                q == ParentDispatch(ret.log, p, call.step)
            IN  IF q = 0 THEN e.variables = call.variables
                ELSE IF TypeOf(call.step, ret.log[q].stepId) = "conditional"
                THEN e.variables = ret.log[q].variables
                ELSE /\ DOMAIN e.variables = DOMAIN ret.log[q].variables \cup LoopKeys
                     /\ \A key \in DOMAIN ret.log[q].variables \ LoopKeys :
                           e.variables[key] = ret.log[q].variables[key]

\* a conditional ran a loop over two items and then a script: the script was
\* dispatched after the loop's children, with the variables of the call
C36_Witness ==
    /\ call.fn = "executeStep"
    /\ call.step.type = "conditional"
    /\ Len(call.step.steps) = 2
    /\ call.step.steps[1].type = "loop"
    /\ Len(call.variables.list) = 2
    /\ ret.kind = "ok"
    /\ Len(ret.log) = 5
    /\ ret.log[5].stepId = "c1"
    /\ ret.log[5].variables = call.variables

(***************************************************************************)
(* C31: the two notions of truthiness.                                     *)
(***************************************************************************)
\* C31: for every value v, "${if v}t${endif}" renders its body exactly when
\* the expression "v" evaluates to true.
C31_TruthinessAgrees ==
    call.fn = "truthiness" =>
        /\ ret.rendered.kind = "returned"
        /\ (ret.rendered.text = <<"t">>) = ret.evaluated

(***************************************************************************)
(* C37: the fields a State Manager mutation changes.                       *)
(***************************************************************************)
\* C37: when addStepExecution, updateSessionStatus or updateContext has
\* returned, the session loadSession reports differs from the one it
\* reported when the call began only in the fields of that operation:
\* stepExecutions and currentStepIndex for addStepExecution, status for
\* updateSessionStatus, context for updateContext, and updatedAt for all;
\* createdAt is never changed.
C37_MutationsChangeOwnFields ==
    (cfr.pc = "done" /\ cfr.op \in {"addStepExecution", "updateSessionStatus", "updateContext"})
        => LET before == LoadSession(snap, cfr.id)
               after == LoadSession(final, cfr.id)
           IN  /\ after.kind = "json"
               /\ after.createdAt = before.createdAt
               /\ cfr.op # "addStepExecution" =>
                     /\ after.stepExecutions = before.stepExecutions
                     /\ after.currentStepIndex = before.currentStepIndex
               /\ cfr.op # "updateSessionStatus" => after.status = before.status
               /\ cfr.op # "updateContext" => after.context = before.context

(***************************************************************************)
(* C35: currentStepIndex of a session whose step failed.                   *)
(***************************************************************************)
\* the records with status success
SuccessCount(execs) == Cardinality({i \in DOMAIN execs : execs[i].status = "success"})

\* C35 as stated: in every persisted session of an execute run,
\* currentStepIndex is the number of stepExecutions with status success.
C35_IndexCountsSuccesses ==
    \A p \in Statuses :
        final[EId][p].kind = "json"
            => final[EId][p].currentStepIndex = SuccessCount(final[EId][p].stepExecutions)

\* C35: in every persisted session of an execute run, currentStepIndex is
\* the number of all stepExecutions, the failed one included: when the last
\* record is the failed record of step number n (index n - 1),
\* currentStepIndex is n, the index after the step that failed, and the
\* number of success records is n - 1.
C35_IndexCountsFailedRecordToo ==
    \A p \in Statuses :
        LET s == final[EId][p]
            n == Len(s.stepExecutions)
        IN  s.kind = "json" =>
                /\ s.currentStepIndex = n
                /\ (n > 0 /\ s.stepExecutions[n].status = "failed") =>
                      /\ s.stepExecutions[n].stepId = s.currentStepIndex
                      /\ SuccessCount(s.stepExecutions) = s.currentStepIndex - 1

\* the second step of a workflow failed and the session was marked failed
C35_Witness ==
    /\ final[EId]["failed"].kind = "json"
    /\ Len(final[EId]["failed"].stepExecutions) = 2
    /\ final[EId]["failed"].stepExecutions[2].status = "failed"
    /\ final[EId]["failed"].currentStepIndex = 2
    /\ epc = "thrown"

\* C34: the state a successful execute returns (mapToWorkflowState of the record
\* executeSteps worked on) agrees with the session loadSession returns at that
\* moment: status completed, stepHistory equal to the persisted stepExecutions,
\* the same currentStepIndex and the same context.
C34_ReturnedStateMatchesPersisted ==
    (epc = "returned" /\ cop = "idle") =>
        LET persisted == LoadSession(final, EId)
        IN  /\ persisted # NoFile
            /\ mem.status = "completed"
            /\ mem.status = persisted.status
            /\ mem.stepExecutions = persisted.stepExecutions
            /\ mem.currentStepIndex = persisted.currentStepIndex
            /\ mem.context = persisted.context

(***************************************************************************)
(* Claims about pause interleaved with a running execute, checked under    *)
(* SpecEngine.                                                             *)
(***************************************************************************)
\* a pause has succeeded and no resume has been accepted since
PausedNotResumed ==
    \E i \in DOMAIN events :
        /\ events[i].type = "paused"
        /\ \A j \in (i + 1)..Len(events) : events[j].type # "resumed"

\* the stepExecutions lists of the copies of the session on disk
PersistedExecutions(fin) ==
    {fin[EId][p].stepExecutions : p \in {q \in Statuses : fin[EId][q].kind = "json"}}

\* C32: once pause has succeeded and until a resume, the execute run starts no
\* further step, no StepExecution is appended to the persisted session, and the
\* session is not moved to completed.
C32_PausedRunStartsNothing ==
    [][PausedNotResumed =>
          /\ (events' # events =>
                 events'[Len(events')].type \notin {"stepStarted", "completed"})
          /\ PersistedExecutions(final') \subseteq PersistedExecutions(final)
          /\ (final'[EId]["completed"].kind = "json"
                 => final[EId]["completed"].kind = "json")]_vars

\* C33: when execute and the calls interleaved with it are over, the session
\* loadSession returns holds a StepExecution for every step whose record
\* addStepExecution saved for the run, and the session has one copy on disk.
C33_InterleavingKeepsState ==
    (epc \in {"returned", "thrown"} /\ cop = "idle") =>
        LET persisted == LoadSession(final, EId)
        IN  /\ Cardinality({p \in Statuses : final[EId][p].kind = "json"}) <= 1
            /\ \A i \in DOMAIN events :
                   events[i].type \in {"stepCompleted", "stepFailed"} =>
                       \E k \in DOMAIN persisted.stepExecutions :
                           persisted.stepExecutions[k].stepId = events[i].step

(***************************************************************************)
(* Termination of execute, checked under SpecRun.                          *)
(***************************************************************************)
\* execute has ended; when no filesystem call failed, its last event is completed
\* or failed and the persisted session has that terminal status
RunOver ==
    /\ epc \in {"returned", "thrown"}
    /\ faults = 0 =>
          /\ events # <<>>
          /\ events[Len(events)].type \in {"completed", "failed"}
          /\ PersistedStatus = events[Len(events)].type

====
